---- MODULE Spec2Model ----
(***************************************************************************)
(* Model of the registration reminder: the window matcher of               *)
(* src/src/scheduler.js, the dedup store of src/src/dedup.js, the two      *)
(* channel dispatcher of the notifications module and the orchestrator     *)
(* main() of src/src/index.js, run once per minute by cron.                *)
(***************************************************************************)
EXTENDS Integers, Sequences, FiniteSets, TLC

(***************************************************************************)
(* Bounds of the model.                                                    *)
(***************************************************************************)
\* largest notificationOffset drawn for the window matcher
MaxOffset == 5
\* minutes at each end of the day from which a second period start is drawn
MaxEdge == 12
\* minutes the clock may advance in one behaviour of the orchestrator
MaxTicks == 3
\* dedup file reads and writes that may fail transiently in one behaviour
MaxFail == 2
\* calls of hasBeenNotified and markNotified in one behaviour of the store
MaxCalls == 3
\* longest list of lessons handed to getLessonsToNotify on its own
MaxBatch == 3
\* calls of the logger in one behaviour of the logger on its own
MaxLogs == 3
MaxDrift == 1

(***************************************************************************)
(* Program constants.                                                      *)
(***************************************************************************)
NOTIFICATION_WINDOW_MINUTES == 5
MinutesPerDay == 24 * 60

(***************************************************************************)
(* Time strings are sequences of characters, as parseTime reads them.      *)
(***************************************************************************)
DigitChars == <<"0", "1", "2", "3", "4", "5", "6", "7", "8", "9">>

DigitValues == [c \in {DigitChars[i] : i \in 1..10} |->
                  (CHOOSE i \in 1..10 : DigitChars[i] = c) - 1]

IsDigit(c) == c \in DOMAIN DigitValues

DigitVal(c) == DigitValues[c]

\* String(n).padStart(2, '0') for 0 <= n <= 99
Pad2(n) == <<DigitChars[(n \div 10) + 1], DigitChars[(n % 10) + 1]>>

\* `${pad(hours)}:${pad(minutes)}`
formatTime(time) == Pad2(time.hours) \o <<":">> \o Pad2(time.minutes)

\* parseInt(s, 10) of a string of decimal digits
ParseDigits(s) ==
  IF Len(s) = 1 THEN DigitVal(s[1]) ELSE 10 * DigitVal(s[1]) + DigitVal(s[2])

\* /^(\d{1,2}):(\d{2})$/ : one or two digits, a colon, two digits
MatchesHHMM(s) ==
  /\ Len(s) \in {4, 5}
  /\ s[Len(s) - 2] = ":"
  /\ \A i \in 1..Len(s) : i # Len(s) - 2 => IsDigit(s[i])

\* parseTime: threw is TRUE where the code throws
parseTime(timeString) ==
  IF ~MatchesHHMM(timeString)
  THEN [threw |-> TRUE, hours |-> 0, minutes |-> 0]
  ELSE LET hours == ParseDigits(SubSeq(timeString, 1, Len(timeString) - 3))
           minutes == ParseDigits(SubSeq(timeString, Len(timeString) - 1, Len(timeString)))
       IN IF hours < 0 \/ hours > 23 \/ minutes < 0 \/ minutes > 59
          THEN [threw |-> TRUE, hours |-> 0, minutes |-> 0]
          ELSE [threw |-> FALSE, hours |-> hours, minutes |-> minutes]

addMinutes_NoWrap(time, minutesToAdd) ==
  LET totalMinutes == time.hours * 60 + time.minutes + minutesToAdd
  IN [hours |-> totalMinutes \div 60, minutes |-> totalMinutes % 60]

addMinutes(time, minutesToAdd) ==
  LET totalMinutes == time.hours * 60 + time.minutes + minutesToAdd
  IN [hours |-> (totalMinutes \div 60) % 24, minutes |-> totalMinutes % 60]

timeToMinutes(time) == time.hours * 60 + time.minutes

\* the window test of shouldNotifyNow, from the notify time on
InWindow_Inclusive(currentMinutes, notifyMinutes) ==
  /\ currentMinutes >= notifyMinutes
  /\ currentMinutes <= notifyMinutes + NOTIFICATION_WINDOW_MINUTES

InWindow(currentMinutes, notifyMinutes) ==
  LET windowEndMinutes == notifyMinutes + NOTIFICATION_WINDOW_MINUTES
  IN currentMinutes >= notifyMinutes /\ currentMinutes < windowEndMinutes

\* shouldNotifyNow: value is the boolean returned, warned is TRUE where the
\* unknown period warning is logged, threw is TRUE where parseTime throws
shouldNotifyNow_ThrowUnknown(lesson, periods, offsetMinutes, currentTime) ==
  IF lesson.period \notin DOMAIN periods
  THEN [threw |-> TRUE, warned |-> FALSE, value |-> FALSE]
  ELSE [threw |-> parseTime(periods[lesson.period].start).threw, warned |-> FALSE,
        value |-> /\ ~parseTime(periods[lesson.period].start).threw
                  /\ InWindow(timeToMinutes(currentTime),
                              timeToMinutes(addMinutes(parseTime(periods[lesson.period].start),
                                                       offsetMinutes)))]

shouldNotifyNow(lesson, periods, offsetMinutes, currentTime) ==
  IF lesson.period \notin DOMAIN periods
  THEN [threw |-> FALSE, warned |-> TRUE, value |-> FALSE]
  ELSE LET periodStart == parseTime(periods[lesson.period].start)
       IN IF periodStart.threw
          THEN [threw |-> TRUE, warned |-> FALSE, value |-> FALSE]
          ELSE LET notifyTime == addMinutes(periodStart, offsetMinutes)
                   currentMinutes == timeToMinutes(currentTime)
                   notifyMinutes == timeToMinutes(notifyTime)
               IN [threw |-> FALSE, warned |-> FALSE,
                   value |-> InWindow(currentMinutes, notifyMinutes)]

(***************************************************************************)
(* Lessons and the dedup store.  Names are sequences of characters, so     *)
(* that the key `${class}|${period}` is their concatenation.               *)
(***************************************************************************)
Lesson(c, p, s) == [class |-> c, period |-> p, subject |-> s]

\* `${lesson.class}|${lesson.period}`
DedupKey(lesson) == lesson.class \o <<"|">> \o lesson.period

\* a file of the logs directory: absent, unparsable, or a JSON object
AbsentFile == [kind |-> "absent", data |-> << >>]
CorruptFile == [kind |-> "corrupt", data |-> << >>]
JsonFile(data) == [kind |-> "json", data |-> data]

EmptyStore == << >>

\* loadDedupData: readOk is FALSE where readFileSync throws on a file that
\* exists; an unparsable file makes JSON.parse throw
loadDedupData_KeepOnFailure(file, readOk) ==
  IF file.kind = "absent" THEN [data |-> EmptyStore, warned |-> FALSE]
  ELSE IF file.kind = "corrupt" THEN [data |-> EmptyStore, warned |-> TRUE]
  ELSE [data |-> file.data, warned |-> ~readOk]

loadDedupData(file, readOk) ==
  IF file.kind = "absent" THEN [data |-> EmptyStore, warned |-> FALSE]
  ELSE IF file.kind = "corrupt" \/ ~readOk THEN [data |-> EmptyStore, warned |-> TRUE]
  ELSE [data |-> file.data, warned |-> FALSE]

\* the truthiness of `entry && entry.date === date`
HasEntry_AnyDate(dedupData, lesson, date) ==
  DedupKey(lesson) \in DOMAIN dedupData

HasEntry(dedupData, lesson, date) ==
  /\ DedupKey(lesson) \in DOMAIN dedupData
  /\ dedupData[DedupKey(lesson)].date = date

\* hasBeenNotified(lesson, date) on the file as it is read
hasBeenNotified_FailClosed(file, readOk, lesson, date) ==
  \/ loadDedupData(file, readOk).warned
  \/ HasEntry(loadDedupData(file, readOk).data, lesson, date)

hasBeenNotified(file, readOk, lesson, date) ==
  HasEntry(loadDedupData(file, readOk).data, lesson, date)

\* the object markNotified hands to saveDedupData: records of other dates are
\* deleted, then the record of the lesson is set
MarkedStore_PurgeToday(dedupData, lesson, date, stamp) ==
  LET kept == {k \in DOMAIN dedupData : dedupData[k].date # date}
  IN [k \in kept \cup {DedupKey(lesson)} |->
        IF k = DedupKey(lesson) THEN [date |-> date, notifiedAt |-> stamp]
        ELSE dedupData[k]]

MarkedStore_KeyedByClass(dedupData, lesson, date, stamp) ==
  LET kept == {k \in DOMAIN dedupData : dedupData[k].date = date}
  IN [k \in kept \cup {lesson.class} |->
        IF k = lesson.class THEN [date |-> date, notifiedAt |-> stamp]
        ELSE dedupData[k]]

MarkedStore_NoPurge(dedupData, lesson, date, stamp) ==
  [k \in DOMAIN dedupData \cup {DedupKey(lesson)} |->
     IF k = DedupKey(lesson) THEN [date |-> date, notifiedAt |-> stamp]
     ELSE dedupData[k]]

MarkedStore_Toggle(dedupData, lesson, date, stamp) ==
  LET kept == {k \in DOMAIN dedupData : dedupData[k].date = date}
      keys == IF DedupKey(lesson) \in kept THEN kept \ {DedupKey(lesson)}
              ELSE kept \cup {DedupKey(lesson)}
  IN [k \in keys |->
        IF k = DedupKey(lesson) THEN [date |-> date, notifiedAt |-> stamp]
        ELSE dedupData[k]]

MarkedStore(dedupData, lesson, date, stamp) ==
  LET kept == {k \in DOMAIN dedupData : dedupData[k].date = date}
  IN [k \in kept \cup {DedupKey(lesson)} |->
        IF k = DedupKey(lesson) THEN [date |-> date, notifiedAt |-> stamp]
        ELSE dedupData[k]]

\* saveDedupData: the file after writeFileSync; a failed write leaves the
\* file as it was or truncated
SavedFiles(file, data, writeOk) ==
  IF writeOk THEN {JsonFile(data)} ELSE {file, CorruptFile}

(***************************************************************************)
(* The configuration and the timetables the orchestrator is run on.        *)
(***************************************************************************)
\* settings.notificationOffset
NotificationOffset == 10

ClassA == <<"A">>
ClassB == <<"B">>
ClassC == <<"C">>
Period1 == <<"P1">>
Period2 == <<"P2">>
PeriodX == <<"PX">>

\* two periods whose windows overlap, a lesson listed twice and a lesson of
\* an unknown period
TimetableGood ==
  [periods |-> (Period1 :> [start |-> formatTime([hours |-> 9, minutes |-> 0])]
                @@ Period2 :> [start |-> formatTime([hours |-> 9, minutes |-> 2])]),
   lessons |-> <<Lesson(ClassA, Period1, "Maths"), Lesson(ClassB, Period2, "Physics"),
                 Lesson(ClassC, PeriodX, "Chess"), Lesson(ClassA, Period1, "Maths")>>,
   shape |-> "ok"]

\* a period whose start parseTime rejects
TimetableBadTime ==
  [periods |-> (Period1 :> [start |-> <<"9", ".", "0", "0">>]),
   lessons |-> <<Lesson(ClassA, Period1, "Maths")>>,
   shape |-> "ok"]

\* a day without lessons
TimetableNoLessons ==
  [periods |-> (Period1 :> [start |-> formatTime([hours |-> 9, minutes |-> 0])]),
   lessons |-> << >>,
   shape |-> "ok"]

\* files that parse as JSON and lack a part: shape says which.  Without
\* timetable.schedule; without timetable.periods; with a value for today
\* that is not an array (lessons stands for what it holds)
TimetableNoSchedule ==
  [periods |-> (Period1 :> [start |-> formatTime([hours |-> 9, minutes |-> 0])]),
   lessons |-> << >>,
   shape |-> "noSchedule"]

TimetableNoPeriods ==
  [periods |-> << >>,
   lessons |-> <<Lesson(ClassA, Period1, "Maths")>>,
   shape |-> "noPeriods"]

TimetableDayNotArray ==
  [periods |-> (Period1 :> [start |-> formatTime([hours |-> 9, minutes |-> 0])]),
   lessons |-> <<Lesson(ClassA, Period1, "Maths")>>,
   shape |-> "dayNotArray"]

Timetables == {TimetableGood, TimetableBadTime, TimetableNoLessons,
               TimetableNoSchedule, TimetableNoPeriods, TimetableDayNotArray}

\* timeRegex of validateTimetable: /^([01]?[0-9]|2[0-3]):[0-5][0-9]$/
timeRegex(s) ==
  /\ Len(s) \in {4, 5}
  /\ s[Len(s) - 2] = ":"
  /\ \A i \in 1..Len(s) : i # Len(s) - 2 => IsDigit(s[i])
  /\ DigitVal(s[Len(s) - 1]) <= 5
  /\ Len(s) = 5 => \/ DigitVal(s[1]) <= 1
                   \/ (DigitVal(s[1]) = 2 /\ DigitVal(s[2]) <= 3)

\* validateTimetable: valid is FALSE where the list of errors is not empty
\* (meta.name and the period ends are taken to be well formed)
validateTimetable(tt) ==
  [valid |-> /\ tt.shape = "ok"
             /\ DOMAIN tt.periods # {}
             /\ \A p \in DOMAIN tt.periods : timeRegex(tt.periods[p].start)
             /\ \A i \in 1..Len(tt.lessons) :
                  /\ tt.lessons[i].period # << >>
                  /\ tt.lessons[i].period \in DOMAIN tt.periods]

\* date keys: 0 is a day before the first day of the behaviour
FirstDay == 1
StaleDay == 0
Dates == StaleDay..(FirstDay + 1)

\* the minute of the day the clock shows at the start: one minute before
\* the window of the first period opens
FirstMinute == 9 * 60 + NotificationOffset - 1

RangeOf(seq) == {seq[i] : i \in 1..Len(seq)}

AllKeys == UNION {{DedupKey(l) : l \in RangeOf(t.lessons)} : t \in Timetables}

(***************************************************************************)
(* State.                                                                  *)
(***************************************************************************)
VARIABLES
  pc,             \* where main is: idle between two invocations of cron
  clock,          \* wall clock: [day, min], min in minutes since midnight
  ticks,          \* minutes the clock has advanced
  startedAt,      \* the clock at the last invocation
  timetable,      \* the active timetable file
  notifiedFile,   \* logs/notified-today.json (src/src/dedup.js)
  lastFile,       \* logs/last-notified.json (src/src/scheduler.js)
  currentTime,    \* const currentTime of main
  lessonsInWindow,\* const lessonsInWindow of main
  todayDate,      \* const todayDate of main
  idx,            \* position of the for loop in lessonsInWindow
  notified,       \* what the last hasBeenNotified returned
  ch,             \* the two channel promises of sendNotifications
  result,         \* what the last sendNotifications returned
  sent,           \* calls of sendNotifications per key and date key
  marks,          \* calls of markNotified per key and date key
  runCalls,       \* calls of sendNotifications per loop position, this run
  ioFail,         \* failed reads and writes of notified-today.json
  persisted,      \* whether the last saveDedupData wrote the file
  log,            \* log lines of this invocation
  exitCode,       \* exit code of the last invocation
  wStartMin, wStart, wOffset, wDue, wDone, \* the window matcher on its own
  sFile,          \* notified-today.json, for the dedup store on its own
  sBefore,        \* the file before the last call of the dedup module
  sCall,          \* the last call of the dedup module and what it did
  sNow,           \* calls made so far; the timestamp of the next one
  bLessons, bPeriods, bMinute, bFile, \* the arguments of getLessonsToNotify
  bOut, bDone,    \* and what it did, for the batch matcher on its own
  tElapsed,       \* milliseconds since the invocation started, for the timing
  tDispatched,    \* lessons dispatched so far in the invocation
  tLast,          \* the time each channel took in the last dispatch
  lDir,           \* whether the logs directory exists, for the logger
  lFile,          \* the entries of logs/activity.log
  lConsole,       \* the lines written to the console
  lCalls,         \* calls of the logger that returned
  lThrew,         \* whether a call of the logger threw
  zPc,            \* the next read of the clock in main: time, lessons, date, done
  zNow,           \* the instant, in minutes since a Sunday 00:00 UTC
  zSystem,        \* offset of the system time zone at that instant, in minutes
  zConfigured,    \* offset of settings.timezone at that instant, in minutes
  zReadAt,        \* the instant at which getCurrentTime was called
  zTime,          \* what getCurrentTime returned
  zToday,         \* the weekday key getTodayLessons selected
  zDate,          \* what getTodayDateString returned, as a day number
  vStart,         \* the value of a period's start in the timetable file
  vPeriod,        \* the period a lesson of the schedule refers to
  vOffset,        \* settings.notificationOffset
  vMinute,        \* the current time, in minutes since midnight
  vValid,         \* validateTimetable(timetable).valid
  vOut,           \* what shouldNotifyNow did for the lesson
  vDone           \* whether the two have been evaluated

mainVars == <<pc, clock, ticks, startedAt, timetable, notifiedFile, lastFile,
              currentTime, lessonsInWindow, todayDate, idx, notified, ch, result,
              sent, marks, runCalls, ioFail, persisted, log, exitCode>>
windowVars == <<wStartMin, wStart, wOffset, wDue, wDone>>
storeVars == <<sFile, sBefore, sCall, sNow>>
batchVars == <<bLessons, bPeriods, bMinute, bFile, bOut, bDone>>
timeVars == <<tElapsed, tDispatched, tLast>>
loggerVars == <<lDir, lFile, lConsole, lCalls, lThrew>>
zoneVars == <<zPc, zNow, zSystem, zConfigured, zReadAt, zTime, zToday, zDate>>
validVars == <<vStart, vPeriod, vOffset, vMinute, vValid, vOut, vDone>>
vars == <<mainVars, windowVars, storeVars, batchVars, timeVars, loggerVars, zoneVars, validVars>>

Channels == {"pushover", "email"}
\* attempts counts the fetches started, failed the fetches that ended
\* without a 2xx response
IdleChannel == [pc |-> "idle", attempts |-> 0, failed |-> 0]
NoResult == [pushover |-> "none", email |-> "none"]
Settled(c) == ch[c].pc \in {"fulfilled", "rejected"}

\* sendNotifications not called yet
NoDispatch == [pushover |-> 0, email |-> 0]
NoTime == [hours |-> 0, minutes |-> 0, dayOfWeek |-> ""]
NoStart == [type |-> "string", text |-> << >>]
NoOutcome == [threw |-> FALSE, warned |-> FALSE, value |-> FALSE]

\* getLessonsToNotify not called yet
NoBatch == [threw |-> FALSE, evaluated |-> 0, warned |-> FALSE, lessons |-> << >>]

\* no call of the dedup module yet
NoCall == [fn |-> "none", lesson |-> Lesson(<< >>, << >>, ""), date |-> StaleDay,
           loaded |-> FALSE, saved |-> FALSE, returned |-> FALSE, log |-> << >>]

StaleStore == (DedupKey(Lesson(ClassA, Period1, "Maths")) :>
                 [date |-> StaleDay, notifiedAt |-> FirstMinute])

Init ==
  /\ pc = "idle"
  /\ clock = [day |-> FirstDay, min |-> FirstMinute]
  /\ ticks = 0
  /\ startedAt = [day |-> StaleDay, min |-> FirstMinute]
  /\ timetable \in Timetables
  /\ notifiedFile \in {AbsentFile, CorruptFile, JsonFile(StaleStore)}
  /\ lastFile \in {AbsentFile, JsonFile(StaleStore)}
  /\ currentTime = [hours |-> 0, minutes |-> 0]
  /\ lessonsInWindow = << >>
  /\ todayDate = StaleDay
  /\ idx = 1
  /\ notified = FALSE
  /\ ch = [c \in Channels |-> IdleChannel]
  /\ result = NoResult
  /\ sent = [kd \in AllKeys \X Dates |-> 0]
  /\ marks = [kd \in AllKeys \X Dates |-> 0]
  /\ runCalls = << >>
  /\ ioFail = 0
  /\ persisted = FALSE
  /\ log = << >>
  /\ exitCode = "none"
  /\ wStartMin = 0 /\ wStart = << >> /\ wOffset = 0 /\ wDue = {} /\ wDone = FALSE
  /\ sFile = AbsentFile /\ sBefore = AbsentFile /\ sCall = NoCall /\ sNow = 0
  /\ bLessons = << >> /\ bPeriods = << >> /\ bMinute = 0 /\ bFile = AbsentFile
  /\ bOut = NoBatch /\ bDone = FALSE
  /\ tElapsed = 0 /\ tDispatched = 0 /\ tLast = NoDispatch
  /\ lDir = FALSE /\ lFile = << >> /\ lConsole = << >> /\ lCalls = 0 /\ lThrew = FALSE
  /\ zPc = "time" /\ zNow = 0 /\ zSystem = 0 /\ zConfigured = 0 /\ zReadAt = 0
  /\ zTime = NoTime /\ zToday = "" /\ zDate = 0
  /\ vStart = NoStart /\ vPeriod = << >> /\ vOffset = 0 /\ vMinute = 0
  /\ vValid = FALSE /\ vOut = NoOutcome /\ vDone = FALSE

(***************************************************************************)
(* The time source and the batch matcher.                                  *)
(***************************************************************************)
\* getCurrentTime: hours and minutes of the clock
getCurrentTime(c) == [hours |-> c.min \div 60, minutes |-> c.min % 60]

\* getTodayDateString: the date key of the clock (the system timezone and
\* settings.timezone are taken to show the same day)
getTodayDateString(c) == c.day

\* getTodayLessons: the schedule of the weekday (every weekday of the
\* timetables drawn here lists the same lessons)
getTodayLessons_Raw(tt) == tt.lessons

getTodayLessons(tt) == IF tt.shape = "dayNotArray" THEN << >> ELSE tt.lessons

\* timetable.schedule[today] throws a TypeError without timetable.schedule
getTodayLessonsThrows(tt) == tt.shape = "noSchedule"

\* periods[lesson.period] throws a TypeError without timetable.periods
periodsLookupThrows(tt) == tt.shape = "noPeriods"

\* hasAlreadyNotified of scheduler.js, on last-notified.json
hasAlreadyNotified(file, readOk, lesson, date) ==
  HasEntry(loadDedupData(file, readOk).data, lesson, date)

\* getLessonsToNotify: the filter of the lessons, called on them in order.
\* threw is TRUE where shouldNotifyNow throws for one of them, evaluated is
\* the number of lessons the filter was called on, warned is TRUE where one
\* of these logged the unknown period warning
getLessonsToNotify_First(lessons, periods, offsetMinutes, time, file, readOk, date) ==
  LET Due(l) == shouldNotifyNow(l, periods, offsetMinutes, time)
      Keep(l) == /\ Due(l).value
                 /\ ~hasAlreadyNotified(file, readOk, l, date)
      throwAt == {i \in 1..Len(lessons) : Due(lessons[i]).threw}
      kept == SelectSeq(lessons, Keep)
  IN [threw |-> throwAt # {},
      evaluated |-> Len(lessons),
      warned |-> \E i \in 1..Len(lessons) : Due(lessons[i]).warned,
      lessons |-> IF kept = << >> THEN << >> ELSE <<kept[1]>>]

getLessonsToNotify(lessons, periods, offsetMinutes, time, file, readOk, date) ==
  LET Due(l) == shouldNotifyNow(l, periods, offsetMinutes, time)
      Keep(l) == /\ Due(l).value
                 /\ ~hasAlreadyNotified(file, readOk, l, date)
      throwAt == {i \in 1..Len(lessons) : Due(lessons[i]).threw}
      last == IF throwAt = {} THEN Len(lessons)
              ELSE CHOOSE i \in throwAt : \A k \in throwAt : i <= k
  IN [threw |-> throwAt # {},
      evaluated |-> last,
      warned |-> \E i \in 1..last : Due(lessons[i]).warned,
      lessons |-> SelectSeq(lessons, Keep)]

(***************************************************************************)
(* The orchestrator: main() of index.js, one action per step.              *)
(***************************************************************************)
\* a minute passes: between two invocations, between the two reads of the
\* clock, and while the channels are waited for
Tick ==
  /\ pc \in {"idle", "match", "send"}
  /\ ticks < MaxTicks
  /\ ticks' = ticks + 1
  /\ clock' = IF clock.min + 1 = MinutesPerDay
              THEN [day |-> clock.day + 1, min |-> 0]
              ELSE [clock EXCEPT !.min = @ + 1]
  /\ UNCHANGED <<pc, startedAt, timetable, notifiedFile, lastFile, currentTime,
                 lessonsInWindow, todayDate, idx, notified, ch, result, sent,
                 marks, runCalls, ioFail, persisted, log, exitCode, windowVars, storeVars, batchVars, timeVars, loggerVars, zoneVars, validVars>>

\* cron starts the process, at most once in a minute and not while the
\* previous one runs
Start ==
  /\ pc = "idle"
  /\ startedAt # clock
  /\ startedAt' = clock
  /\ pc' = "loadSettings"
  /\ log' = <<"Checking for notifications">>
  /\ exitCode' = "none"
  /\ lessonsInWindow' = << >>
  /\ idx' = 1
  /\ runCalls' = << >>
  /\ notified' = FALSE
  /\ result' = NoResult
  /\ ch' = [c \in Channels |-> IdleChannel]
  /\ UNCHANGED <<clock, ticks, timetable, notifiedFile, lastFile, currentTime,
                 todayDate, sent, marks, ioFail, persisted, windowVars, storeVars, batchVars, timeVars, loggerVars, zoneVars, validVars>>

\* loadSettings, and process.exit(1) when it throws
LoadSettings_Continue ==
  /\ pc = "loadSettings"
  /\ \E ok \in BOOLEAN :
       IF ok THEN /\ pc' = "loadTimetable"
                  /\ UNCHANGED <<log, exitCode>>
       ELSE /\ pc' = "loadTimetable"
            /\ log' = Append(log, "Failed to load settings")
            /\ UNCHANGED exitCode
  /\ UNCHANGED <<clock, ticks, startedAt, timetable, notifiedFile, lastFile,
                 currentTime, lessonsInWindow, todayDate, idx, notified, ch,
                 result, sent, marks, runCalls, ioFail, persisted, windowVars, storeVars, batchVars, timeVars, loggerVars, zoneVars, validVars>>

LoadSettings ==
  /\ pc = "loadSettings"
  /\ \E ok \in BOOLEAN :
       IF ok THEN /\ pc' = "loadTimetable"
                  /\ UNCHANGED <<log, exitCode>>
       ELSE /\ pc' = "aborted"
            /\ log' = Append(log, "Failed to load settings")
            /\ exitCode' = 1
  /\ UNCHANGED <<clock, ticks, startedAt, timetable, notifiedFile, lastFile,
                 currentTime, lessonsInWindow, todayDate, idx, notified, ch,
                 result, sent, marks, runCalls, ioFail, persisted, windowVars, storeVars, batchVars, timeVars, loggerVars, zoneVars, validVars>>

\* loadTimetable, and process.exit(1) when it throws
LoadTimetable ==
  /\ pc = "loadTimetable"
  /\ \E ok \in BOOLEAN :
       IF ok THEN /\ pc' = "validate"
                  /\ UNCHANGED <<log, exitCode>>
       ELSE /\ pc' = "aborted"
            /\ log' = Append(log, "Failed to load timetable")
            /\ exitCode' = 1
  /\ UNCHANGED <<clock, ticks, startedAt, timetable, notifiedFile, lastFile,
                 currentTime, lessonsInWindow, todayDate, idx, notified, ch,
                 result, sent, marks, runCalls, ioFail, persisted, windowVars, storeVars, batchVars, timeVars, loggerVars, zoneVars, validVars>>

\* validateTimetable: its errors are logged as a warning and main goes on
ValidateTimetable ==
  /\ pc = "validate"
  /\ log' = IF validateTimetable(timetable).valid THEN log
            ELSE Append(log, "Timetable validation warnings")
  /\ pc' = "readClock"
  /\ UNCHANGED <<clock, ticks, startedAt, timetable, notifiedFile, lastFile,
                 currentTime, lessonsInWindow, todayDate, idx, notified, ch,
                 result, sent, marks, runCalls, ioFail, persisted, exitCode,
                 windowVars, storeVars, batchVars, timeVars, loggerVars, zoneVars, validVars>>

\* const currentTime = getCurrentTime(settings.timezone)
ReadClock ==
  /\ pc = "readClock"
  /\ currentTime' = getCurrentTime(clock)
  /\ log' = Append(log, "Current time")
  /\ pc' = "match"
  /\ UNCHANGED <<clock, ticks, startedAt, timetable, notifiedFile, lastFile,
                 lessonsInWindow, todayDate, idx, notified, ch, result, sent,
                 marks, runCalls, ioFail, persisted, exitCode, windowVars, storeVars, batchVars, timeVars, loggerVars, zoneVars, validVars>>

\* getTodayLessons, getLessonsToNotify and getTodayDateString: the run ends
\* here when nothing is in its window, and with exit code 1 when the
\* matcher throws
MatchWindow ==
  /\ pc = "match"
  /\ \E readOk \in BOOLEAN :
       LET lessons == getTodayLessons(timetable)
           got == getLessonsToNotify(lessons, timetable.periods, NotificationOffset,
                                     currentTime, lastFile, readOk,
                                     getTodayDateString(clock))
       IN IF getTodayLessonsThrows(timetable)
          THEN /\ log' = Append(log, "Unhandled error in main")
               /\ pc' = "aborted" /\ exitCode' = 1
               /\ UNCHANGED <<lessonsInWindow, todayDate, runCalls>>
          ELSE IF lessons = << >>
          THEN /\ log' = log \o <<"No lessons today", "Complete">>
               /\ pc' = "done" /\ exitCode' = 0
               /\ UNCHANGED <<lessonsInWindow, todayDate, runCalls>>
          ELSE IF got.threw \/ periodsLookupThrows(timetable)
          THEN /\ log' = Append(log, "Unhandled error in main")
               /\ pc' = "aborted" /\ exitCode' = 1
               /\ UNCHANGED <<lessonsInWindow, todayDate, runCalls>>
          ELSE IF got.lessons = << >>
          THEN /\ log' = log \o (IF got.warned THEN <<"Unknown period in lesson">> ELSE << >>)
                             \o <<"No notifications at this time", "Complete">>
               /\ pc' = "done" /\ exitCode' = 0
               /\ lessonsInWindow' = got.lessons
               /\ UNCHANGED <<todayDate, runCalls>>
          ELSE /\ log' = log \o (IF got.warned THEN <<"Unknown period in lesson">> ELSE << >>)
               /\ lessonsInWindow' = got.lessons
               /\ todayDate' = getTodayDateString(clock)
               /\ runCalls' = [i \in 1..Len(got.lessons) |-> 0]
               /\ pc' = "check"
               /\ UNCHANGED exitCode
  /\ UNCHANGED <<clock, ticks, startedAt, timetable, notifiedFile, lastFile,
                 currentTime, idx, notified, ch, result, sent, marks, ioFail,
                 persisted, windowVars, storeVars, batchVars, timeVars, loggerVars, zoneVars, validVars>>

\* reads of notified-today.json that may fail: a file that exists and
\* parses may fail to be read, within the bound
ReadOutcomes(file) ==
  IF file.kind = "json" /\ ioFail < MaxFail THEN BOOLEAN ELSE {TRUE}

ReadFailed(file, readOk) == loadDedupData(file, readOk).warned

\* the head of the for loop: hasBeenNotified, and the skip of a lesson
\* already notified
CheckDedup_Ignore ==
  /\ pc = "check"
  /\ idx <= Len(lessonsInWindow)
  /\ \E readOk \in ReadOutcomes(notifiedFile) :
       /\ notified' = hasBeenNotified(notifiedFile, readOk, lessonsInWindow[idx], todayDate)
       /\ ioFail' = ioFail + (IF ReadFailed(notifiedFile, readOk) THEN 1 ELSE 0)
       /\ log' = log \o (IF ReadFailed(notifiedFile, readOk)
                          THEN <<"Failed to load dedup file">> ELSE << >>)
                      \o <<"Match found">>
       /\ pc' = "call"
       /\ UNCHANGED idx
  /\ UNCHANGED <<clock, ticks, startedAt, timetable, notifiedFile, lastFile,
                 currentTime, lessonsInWindow, todayDate, ch, result, sent, marks,
                 runCalls, persisted, exitCode, windowVars, storeVars, batchVars, timeVars, loggerVars, zoneVars, validVars>>

CheckDedup ==
  /\ pc = "check"
  /\ idx <= Len(lessonsInWindow)
  /\ \E readOk \in ReadOutcomes(notifiedFile) :
       /\ notified' = hasBeenNotified(notifiedFile, readOk, lessonsInWindow[idx], todayDate)
       /\ ioFail' = ioFail + (IF ReadFailed(notifiedFile, readOk) THEN 1 ELSE 0)
       /\ IF notified'
          THEN /\ log' = Append(log, "Skipping duplicate notification")
               /\ idx' = idx + 1
               /\ pc' = "check"
          ELSE /\ log' = log \o (IF ReadFailed(notifiedFile, readOk)
                                  THEN <<"Failed to load dedup file">> ELSE << >>)
                              \o <<"Match found">>
               /\ pc' = "call"
               /\ UNCHANGED idx
  /\ UNCHANGED <<clock, ticks, startedAt, timetable, notifiedFile, lastFile,
                 currentTime, lessonsInWindow, todayDate, ch, result, sent, marks,
                 runCalls, persisted, exitCode, windowVars, storeVars, batchVars, timeVars, loggerVars, zoneVars, validVars>>

\* the end of the for loop: logger.info('Complete') and exit code 0
Complete ==
  /\ pc = "check"
  /\ idx > Len(lessonsInWindow)
  /\ log' = Append(log, "Complete")
  /\ pc' = "done"
  /\ exitCode' = 0
  /\ UNCHANGED <<clock, ticks, startedAt, timetable, notifiedFile, lastFile,
                 currentTime, lessonsInWindow, todayDate, idx, notified, ch,
                 result, sent, marks, runCalls, ioFail, persisted, windowVars, storeVars, batchVars, timeVars, loggerVars, zoneVars, validVars>>

(***************************************************************************)
(* The dispatcher: sendNotifications and its two channels.                 *)
(***************************************************************************)
\* the promise of a channel when its function is called: rejected at once
\* when it throws before its first fetch, else the first attempt in flight
CalledChannel(ready) ==
  IF ready THEN [pc |-> "attempt1", attempts |-> 1, failed |-> 0]
  ELSE [pc |-> "rejected", attempts |-> 0, failed |-> 0]

\* sendNotifications up to its await: both channel functions are called.
\* sendPushover throws without its two credentials, sendEmail without its
\* key or without settings.email
StartSend ==
  /\ pc = "call"
  /\ \E pushoverCreds \in BOOLEAN, emailKey \in BOOLEAN, emailSettings \in BOOLEAN :
       ch' = [pushover |-> CalledChannel(pushoverCreds),
              email |-> CalledChannel(emailKey /\ emailSettings)]
  /\ sent' = [sent EXCEPT ![<<DedupKey(lessonsInWindow[idx]), todayDate>>] = @ + 1]
  /\ runCalls' = [runCalls EXCEPT ![idx] = @ + 1]
  /\ log' = Append(log, "Sending notifications")
  /\ result' = NoResult
  /\ pc' = "send"
  /\ UNCHANGED <<clock, ticks, startedAt, timetable, notifiedFile, lastFile,
                 currentTime, lessonsInWindow, todayDate, idx, notified, marks,
                 ioFail, persisted, exitCode, windowVars, storeVars, batchVars, timeVars, loggerVars, zoneVars, validVars>>

channelFrame == <<pc, clock, ticks, startedAt, timetable, notifiedFile, lastFile,
                  currentTime, lessonsInWindow, todayDate, idx, notified, result,
                  sent, marks, runCalls, ioFail, persisted, log, exitCode, windowVars, storeVars, batchVars, timeVars, loggerVars, zoneVars, validVars>>

\* what an attempt of fetchWithTimeout ends with: a 2xx response, another
\* response, or an exception (network error, or the abort of the timeout)
FetchOutcomes == {"ok", "notOk", "error"}

\* the first attempt: a 2xx response fulfils the promise, anything else
\* leads to the retry delay
FirstAttempt_NoRetry(c) ==
  /\ pc = "send"
  /\ ch[c].pc = "attempt1"
  /\ \E outcome \in FetchOutcomes :
       ch' = [ch EXCEPT ![c] = IF outcome = "ok" THEN [@ EXCEPT !.pc = "fulfilled"]
                               ELSE [@ EXCEPT !.pc = "rejected", !.failed = @ + 1]]
  /\ UNCHANGED channelFrame

FirstAttempt(c) ==
  /\ pc = "send"
  /\ ch[c].pc = "attempt1"
  /\ \E outcome \in FetchOutcomes :
       ch' = [ch EXCEPT ![c] = IF outcome = "ok" THEN [@ EXCEPT !.pc = "fulfilled"]
                               ELSE [@ EXCEPT !.pc = "delay", !.failed = @ + 1]]
  /\ UNCHANGED channelFrame

\* await delay(RETRY_DELAY_MS), then the second fetch is started
RetryDelay(c) ==
  /\ pc = "send"
  /\ ch[c].pc = "delay"
  /\ ch' = [ch EXCEPT ![c] = [@ EXCEPT !.pc = "attempt2", !.attempts = @ + 1]]
  /\ UNCHANGED channelFrame

\* the second attempt: a response that is not 2xx has its body read before
\* the channel throws
SecondAttempt(c) ==
  /\ pc = "send"
  /\ ch[c].pc = "attempt2"
  /\ \E outcome \in FetchOutcomes :
       ch' = [ch EXCEPT ![c] = CASE outcome = "ok" -> [@ EXCEPT !.pc = "fulfilled"]
                                 [] outcome = "notOk" -> [@ EXCEPT !.pc = "body", !.failed = @ + 1]
                                 [] OTHER -> [@ EXCEPT !.pc = "rejected", !.failed = @ + 1]]
  /\ UNCHANGED channelFrame

\* await response.text() resolves or rejects: the channel throws either way
BodyRead(c) ==
  /\ pc = "send"
  /\ ch[c].pc = "body"
  /\ ch' = [ch EXCEPT ![c].pc = "rejected"]
  /\ UNCHANGED channelFrame

\* 'success' or 'failed' of a settled promise
StatusOf(c) == IF ch[c].pc = "fulfilled" THEN "success" ELSE "failed"

\* Promise.allSettled: ready once both promises are settled, and never
\* rejected
JoinOutcome_All ==
  [ready |-> \/ \E c \in Channels : ch[c].pc = "rejected"
             \/ \A c \in Channels : ch[c].pc = "fulfilled",
   rejected |-> \E c \in Channels : ch[c].pc = "rejected"]

JoinOutcome_Race ==
  [ready |-> \E c \in Channels : Settled(c), rejected |-> FALSE]

JoinOutcome ==
  [ready |-> \A c \in Channels : Settled(c), rejected |-> FALSE]

\* the await of sendNotifications ends.  The record is returned to main,
\* which logs it and goes on to markNotified; a rejection would go to the
\* catch of main, which logs it and goes on with the next lesson
Join_MarkOnSuccess ==
  /\ pc = "send"
  /\ JoinOutcome.ready
  /\ result' = [pushover |-> StatusOf("pushover"), email |-> StatusOf("email")]
  /\ log' = Append(log, "Notification result")
  /\ IF StatusOf("pushover") = "failed" /\ StatusOf("email") = "failed"
     THEN pc' = "check" /\ idx' = idx + 1
     ELSE pc' = "mark" /\ UNCHANGED idx
  /\ UNCHANGED <<clock, ticks, startedAt, timetable, notifiedFile, lastFile,
                 currentTime, lessonsInWindow, todayDate, notified, ch, sent,
                 marks, runCalls, ioFail, persisted, exitCode, windowVars, storeVars, batchVars, timeVars, loggerVars, zoneVars, validVars>>

Join ==
  /\ pc = "send"
  /\ JoinOutcome.ready
  /\ IF JoinOutcome.rejected
     THEN /\ log' = Append(log, "Failed to send notifications")
          /\ pc' = "check"
          /\ idx' = idx + 1
          /\ UNCHANGED result
     ELSE /\ result' = [pushover |-> StatusOf("pushover"), email |-> StatusOf("email")]
          /\ log' = log \o <<IF StatusOf("pushover") = "success"
                             THEN "Pushover notification sent successfully"
                             ELSE "Pushover notification failed",
                             IF StatusOf("email") = "success"
                             THEN "Email sent successfully" ELSE "Email failed",
                             "Notification result">>
          /\ pc' = "mark"
          /\ UNCHANGED idx
  /\ UNCHANGED <<clock, ticks, startedAt, timetable, notifiedFile, lastFile,
                 currentTime, lessonsInWindow, todayDate, notified, ch, sent,
                 marks, runCalls, ioFail, persisted, exitCode, windowVars, storeVars, batchVars, timeVars, loggerVars, zoneVars, validVars>>

(***************************************************************************)
(* markNotified, and the end of the process.                               *)
(***************************************************************************)
\* writes of notified-today.json that may fail, within the bound
WriteOutcomes(failedSoFar) ==
  IF ioFail + failedSoFar < MaxFail THEN BOOLEAN ELSE {TRUE}

\* markNotified(lesson, todayDate): load, purge, set, save; then the loop
\* goes on with the next lesson
MarkNotified_Raise ==
  /\ pc = "mark"
  /\ \E readOk \in ReadOutcomes(notifiedFile) :
       LET loaded == loadDedupData(notifiedFile, readOk)
           readFailed == IF loaded.warned THEN 1 ELSE 0
           dedupData == MarkedStore(loaded.data, lessonsInWindow[idx], todayDate, clock)
       IN \E writeOk \in WriteOutcomes(IF readOk THEN 0 ELSE 1) :
            /\ notifiedFile' \in SavedFiles(notifiedFile, dedupData, writeOk)
            /\ persisted' = writeOk
            /\ ioFail' = ioFail + readFailed + (IF writeOk THEN 0 ELSE 1)
            /\ log' = log \o (IF loaded.warned THEN <<"Failed to load dedup file">> ELSE << >>)
                          \o (IF writeOk THEN << >> ELSE <<"Failed to save dedup file">>)
                          \o <<"Marked lesson as notified">>
  /\ marks' = [marks EXCEPT ![<<DedupKey(lessonsInWindow[idx]), todayDate>>] = @ + 1]
  /\ idx' = idx + 1
  /\ IF persisted' THEN pc' = "check" /\ UNCHANGED exitCode
     ELSE pc' = "aborted" /\ exitCode' = 1
  /\ UNCHANGED <<clock, ticks, startedAt, timetable, lastFile, currentTime,
                 lessonsInWindow, todayDate, notified, ch, result, sent, runCalls,
                 windowVars, storeVars, batchVars, timeVars, loggerVars, zoneVars, validVars>>

MarkNotified ==
  /\ pc = "mark"
  /\ \E readOk \in ReadOutcomes(notifiedFile) :
       LET loaded == loadDedupData(notifiedFile, readOk)
           readFailed == IF loaded.warned THEN 1 ELSE 0
           dedupData == MarkedStore(loaded.data, lessonsInWindow[idx], todayDate, clock)
       IN \E writeOk \in WriteOutcomes(IF readOk THEN 0 ELSE 1) :
            /\ notifiedFile' \in SavedFiles(notifiedFile, dedupData, writeOk)
            /\ persisted' = writeOk
            /\ ioFail' = ioFail + readFailed + (IF writeOk THEN 0 ELSE 1)
            /\ log' = log \o (IF loaded.warned THEN <<"Failed to load dedup file">> ELSE << >>)
                          \o (IF writeOk THEN << >> ELSE <<"Failed to save dedup file">>)
                          \o <<"Marked lesson as notified">>
  /\ marks' = [marks EXCEPT ![<<DedupKey(lessonsInWindow[idx]), todayDate>>] = @ + 1]
  /\ idx' = idx + 1
  /\ pc' = "check"
  /\ UNCHANGED <<clock, ticks, startedAt, timetable, lastFile, currentTime,
                 lessonsInWindow, todayDate, notified, ch, result, sent, runCalls,
                 exitCode, windowVars, storeVars, batchVars, timeVars, loggerVars, zoneVars, validVars>>

\* the process ends; cron starts the next one in a later minute
Exit ==
  /\ pc \in {"done", "aborted"}
  /\ pc' = "idle"
  /\ UNCHANGED <<clock, ticks, startedAt, timetable, notifiedFile, lastFile,
                 currentTime, lessonsInWindow, todayDate, idx, notified, ch,
                 result, sent, marks, runCalls, ioFail, persisted, log, exitCode,
                 windowVars, storeVars, batchVars, timeVars, loggerVars, zoneVars, validVars>>

Next ==
  \/ Tick
  \/ Start
  \/ LoadSettings
  \/ LoadTimetable
  \/ ValidateTimetable
  \/ ReadClock
  \/ MatchWindow
  \/ CheckDedup
  \/ Complete
  \/ StartSend
  \/ \E c \in Channels : FirstAttempt(c)
  \/ \E c \in Channels : RetryDelay(c)
  \/ \E c \in Channels : SecondAttempt(c)
  \/ \E c \in Channels : BodyRead(c)
  \/ Join
  \/ MarkNotified
  \/ Exit

Spec == Init /\ [][Next]_vars

(***************************************************************************)
(* The window matcher on its own: shouldNotifyNow applied to one period    *)
(* start and one offset, at every minute of the day.                       *)
(***************************************************************************)
MinutesOfDay == 0..(MinutesPerDay - 1)

TimeOfMinute(n) == [hours |-> n \div 60, minutes |-> n % 60]

\* a period start 00:00..23:59, as the timetable file writes it
StartString(n) == formatTime(TimeOfMinute(n))

\* the offsets drawn: the small ones and the one of settings.json
Offsets == (0..MaxOffset) \cup {NotificationOffset}

WindowLesson == Lesson(ClassA, Period1, "Maths")

PeriodsOf(start) == (Period1 :> [start |-> start])

InitWindow ==
  /\ pc = "idle"
  /\ clock = [day |-> FirstDay, min |-> FirstMinute]
  /\ ticks = 0
  /\ startedAt = [day |-> StaleDay, min |-> FirstMinute]
  /\ timetable = TimetableGood
  /\ notifiedFile = AbsentFile
  /\ lastFile = AbsentFile
  /\ currentTime = [hours |-> 0, minutes |-> 0]
  /\ lessonsInWindow = << >>
  /\ todayDate = StaleDay
  /\ idx = 1
  /\ notified = FALSE
  /\ ch = [c \in Channels |-> IdleChannel]
  /\ result = NoResult
  /\ sent = [kd \in AllKeys \X Dates |-> 0]
  /\ marks = [kd \in AllKeys \X Dates |-> 0]
  /\ runCalls = << >>
  /\ ioFail = 0
  /\ persisted = FALSE
  /\ log = << >>
  /\ exitCode = "none"
  /\ wStartMin \in MinutesOfDay
  /\ wStart = StartString(wStartMin)
  /\ wOffset \in Offsets
  /\ wDue = {}
  /\ wDone = FALSE
  /\ sFile = AbsentFile /\ sBefore = AbsentFile /\ sCall = NoCall /\ sNow = 0
  /\ bLessons = << >> /\ bPeriods = << >> /\ bMinute = 0 /\ bFile = AbsentFile
  /\ bOut = NoBatch /\ bDone = FALSE
  /\ tElapsed = 0 /\ tDispatched = 0 /\ tLast = NoDispatch
  /\ lDir = FALSE /\ lFile = << >> /\ lConsole = << >> /\ lCalls = 0 /\ lThrew = FALSE
  /\ zPc = "time" /\ zNow = 0 /\ zSystem = 0 /\ zConfigured = 0 /\ zReadAt = 0
  /\ zTime = NoTime /\ zToday = "" /\ zDate = 0
  /\ vStart = NoStart /\ vPeriod = << >> /\ vOffset = 0 /\ vMinute = 0
  /\ vValid = FALSE /\ vOut = NoOutcome /\ vDone = FALSE

\* shouldNotifyNow at every current time of the day
EvalWindow ==
  /\ ~wDone
  /\ wDue' = {n \in MinutesOfDay :
                shouldNotifyNow(WindowLesson, PeriodsOf(wStart), wOffset,
                                TimeOfMinute(n)).value}
  /\ wDone' = TRUE
  /\ UNCHANGED <<wStartMin, wStart, wOffset, mainVars, storeVars, batchVars, timeVars, loggerVars, zoneVars, validVars>>

NextWindow == EvalWindow

SpecWindow == InitWindow /\ [][NextWindow]_vars

(***************************************************************************)
(* The dedup store on its own: hasBeenNotified and markNotified called     *)
(* with any lesson and date key, on any content of the file.               *)
(***************************************************************************)
\* names that hold the character of the key separator
ClassPipe == <<"A", "|", "P1">>
PeriodPipe == <<"P1", "|", "Q">>
PeriodQ == <<"Q">>

StoreLessons == {Lesson(ClassA, Period1, "Maths"), Lesson(ClassB, Period2, "Physics"),
                 Lesson(ClassA, PeriodPipe, "Maths"), Lesson(ClassPipe, PeriodQ, "Maths")}

StoreKeys == {DedupKey(l) : l \in StoreLessons}

\* the objects the file may hold at the start: any keys, any dates
InitialStores ==
  UNION {[K -> [date : Dates, notifiedAt : {0}]] : K \in SUBSET StoreKeys}

InitStore ==
  /\ pc = "idle"
  /\ clock = [day |-> FirstDay, min |-> FirstMinute]
  /\ ticks = 0
  /\ startedAt = [day |-> StaleDay, min |-> FirstMinute]
  /\ timetable = TimetableGood
  /\ notifiedFile = AbsentFile
  /\ lastFile = AbsentFile
  /\ currentTime = [hours |-> 0, minutes |-> 0]
  /\ lessonsInWindow = << >>
  /\ todayDate = StaleDay
  /\ idx = 1
  /\ notified = FALSE
  /\ ch = [c \in Channels |-> IdleChannel]
  /\ result = NoResult
  /\ sent = [kd \in AllKeys \X Dates |-> 0]
  /\ marks = [kd \in AllKeys \X Dates |-> 0]
  /\ runCalls = << >>
  /\ ioFail = 0
  /\ persisted = FALSE
  /\ log = << >>
  /\ exitCode = "none"
  /\ wStartMin = 0 /\ wStart = << >> /\ wOffset = 0 /\ wDue = {} /\ wDone = FALSE
  /\ sFile \in {AbsentFile, CorruptFile} \cup {JsonFile(d) : d \in InitialStores}
  /\ sBefore = sFile
  /\ sCall = NoCall
  /\ sNow = 0
  /\ bLessons = << >> /\ bPeriods = << >> /\ bMinute = 0 /\ bFile = AbsentFile
  /\ bOut = NoBatch /\ bDone = FALSE
  /\ tElapsed = 0 /\ tDispatched = 0 /\ tLast = NoDispatch
  /\ lDir = FALSE /\ lFile = << >> /\ lConsole = << >> /\ lCalls = 0 /\ lThrew = FALSE
  /\ zPc = "time" /\ zNow = 0 /\ zSystem = 0 /\ zConfigured = 0 /\ zReadAt = 0
  /\ zTime = NoTime /\ zToday = "" /\ zDate = 0
  /\ vStart = NoStart /\ vPeriod = << >> /\ vOffset = 0 /\ vMinute = 0
  /\ vValid = FALSE /\ vOut = NoOutcome /\ vDone = FALSE

\* a call of hasBeenNotified(lesson, date)
StoreHas ==
  /\ sNow < MaxCalls
  /\ \E lesson \in StoreLessons, date \in Dates, readOk \in BOOLEAN :
       LET loaded == loadDedupData(sFile, readOk)
       IN sCall' = [fn |-> "hasBeenNotified", lesson |-> lesson, date |-> date,
                    loaded |-> ~loaded.warned, saved |-> FALSE,
                    returned |-> hasBeenNotified(sFile, readOk, lesson, date),
                    log |-> IF loaded.warned THEN <<"Failed to load dedup file">>
                            ELSE << >>]
  /\ sBefore' = sFile
  /\ sNow' = sNow + 1
  /\ UNCHANGED <<sFile, mainVars, windowVars, batchVars, timeVars, loggerVars, zoneVars, validVars>>

\* a call of markNotified(lesson, date)
StoreMark ==
  /\ sNow < MaxCalls
  /\ \E lesson \in StoreLessons, date \in Dates, readOk \in BOOLEAN, writeOk \in BOOLEAN :
       LET loaded == loadDedupData(sFile, readOk)
           dedupData == MarkedStore(loaded.data, lesson, date, sNow + 1)
       IN /\ sFile' \in SavedFiles(sFile, dedupData, writeOk)
          /\ sCall' = [fn |-> "markNotified", lesson |-> lesson, date |-> date,
                       loaded |-> ~loaded.warned, saved |-> writeOk,
                       returned |-> TRUE,
                       log |-> (IF loaded.warned THEN <<"Failed to load dedup file">>
                                ELSE << >>)
                               \o (IF writeOk THEN << >>
                                   ELSE <<"Failed to save dedup file">>)
                               \o <<"Marked lesson as notified">>]
  /\ sBefore' = sFile
  /\ sNow' = sNow + 1
  /\ UNCHANGED <<mainVars, windowVars, batchVars, timeVars, loggerVars, zoneVars, validVars>>

NextStore == StoreHas \/ StoreMark

SpecStore == InitStore /\ [][NextStore]_vars

(***************************************************************************)
(* The batch matcher on its own: getLessonsToNotify called on any list of  *)
(* lessons, around the windows of two periods, on any content of           *)
(* last-notified.json.                                                     *)
(***************************************************************************)
\* two lessons of one period, a lesson of another and one of an unknown one
BatchLessons == {Lesson(ClassA, Period1, "Maths"), Lesson(ClassB, Period2, "Physics"),
                 Lesson(ClassC, PeriodX, "Chess"), Lesson(ClassB, Period1, "Physics")}

Batches == UNION {[1..n -> BatchLessons] : n \in 0..MaxBatch}

\* the start of the second period is one parseTime rejects
PeriodsBadTime ==
  (Period1 :> [start |-> formatTime([hours |-> 9, minutes |-> 0])]
   @@ Period2 :> [start |-> <<"9", ".", "0", "2">>])

BatchPeriods == {TimetableGood.periods, PeriodsBadTime}

\* from the minute before the first window opens to the one after the
\* second has closed
BatchMinutes == FirstMinute..(FirstMinute + 8)

TodayStore == (DedupKey(Lesson(ClassA, Period1, "Maths")) :>
                 [date |-> FirstDay, notifiedAt |-> FirstMinute])

InitBatch ==
  /\ pc = "idle"
  /\ clock = [day |-> FirstDay, min |-> FirstMinute]
  /\ ticks = 0
  /\ startedAt = [day |-> StaleDay, min |-> FirstMinute]
  /\ timetable = TimetableGood
  /\ notifiedFile = AbsentFile
  /\ lastFile = AbsentFile
  /\ currentTime = [hours |-> 0, minutes |-> 0]
  /\ lessonsInWindow = << >>
  /\ todayDate = StaleDay
  /\ idx = 1
  /\ notified = FALSE
  /\ ch = [c \in Channels |-> IdleChannel]
  /\ result = NoResult
  /\ sent = [kd \in AllKeys \X Dates |-> 0]
  /\ marks = [kd \in AllKeys \X Dates |-> 0]
  /\ runCalls = << >>
  /\ ioFail = 0
  /\ persisted = FALSE
  /\ log = << >>
  /\ exitCode = "none"
  /\ wStartMin = 0 /\ wStart = << >> /\ wOffset = 0 /\ wDue = {} /\ wDone = FALSE
  /\ sFile = AbsentFile /\ sBefore = AbsentFile /\ sCall = NoCall /\ sNow = 0
  /\ bLessons \in Batches
  /\ bPeriods \in BatchPeriods
  /\ bMinute \in BatchMinutes
  /\ bFile \in {AbsentFile, CorruptFile, JsonFile(StaleStore), JsonFile(TodayStore)}
  /\ bOut = NoBatch
  /\ bDone = FALSE
  /\ tElapsed = 0 /\ tDispatched = 0 /\ tLast = NoDispatch
  /\ lDir = FALSE /\ lFile = << >> /\ lConsole = << >> /\ lCalls = 0 /\ lThrew = FALSE
  /\ zPc = "time" /\ zNow = 0 /\ zSystem = 0 /\ zConfigured = 0 /\ zReadAt = 0
  /\ zTime = NoTime /\ zToday = "" /\ zDate = 0
  /\ vStart = NoStart /\ vPeriod = << >> /\ vOffset = 0 /\ vMinute = 0
  /\ vValid = FALSE /\ vOut = NoOutcome /\ vDone = FALSE

\* getLessonsToNotify(lessons, periods, offsetMinutes, currentTime)
EvalBatch ==
  /\ ~bDone
  /\ \E readOk \in BOOLEAN :
       bOut' = getLessonsToNotify(bLessons, bPeriods, NotificationOffset,
                                  TimeOfMinute(bMinute), bFile, readOk, FirstDay)
  /\ bDone' = TRUE
  /\ UNCHANGED <<bLessons, bPeriods, bMinute, bFile, mainVars, windowVars, storeVars, timeVars, loggerVars, zoneVars, validVars>>

NextBatch == EvalBatch

SpecBatch == InitBatch /\ [][NextBatch]_vars

(***************************************************************************)
(* The time an invocation takes: the dispatches of its lessons, one after  *)
(* the other, each as long as the slower of its two channels.              *)
(***************************************************************************)
RETRY_DELAY_MS == 5000
TIMEOUT_MS == 30000

\* cron starts an invocation every minute
CronPeriodMs == 60000

\* what one fetchWithTimeout takes: an answer at once, an answer halfway,
\* or the abort at the timeout
AttemptDurations == {100, TIMEOUT_MS \div 2, TIMEOUT_MS}

\* the time a channel takes: one attempt when it gets a 2xx response, else
\* the attempt, the delay and the second attempt
ChannelDurations ==
  AttemptDurations
    \cup {d1 + RETRY_DELAY_MS + d2 : d1 \in AttemptDurations, d2 \in AttemptDurations}

Max(a, b) == IF a >= b THEN a ELSE b

InitTime ==
  /\ pc = "idle"
  /\ clock = [day |-> FirstDay, min |-> FirstMinute]
  /\ ticks = 0
  /\ startedAt = [day |-> StaleDay, min |-> FirstMinute]
  /\ timetable = TimetableGood
  /\ notifiedFile = AbsentFile
  /\ lastFile = AbsentFile
  /\ currentTime = [hours |-> 0, minutes |-> 0]
  /\ lessonsInWindow = << >>
  /\ todayDate = StaleDay
  /\ idx = 1
  /\ notified = FALSE
  /\ ch = [c \in Channels |-> IdleChannel]
  /\ result = NoResult
  /\ sent = [kd \in AllKeys \X Dates |-> 0]
  /\ marks = [kd \in AllKeys \X Dates |-> 0]
  /\ runCalls = << >>
  /\ ioFail = 0
  /\ persisted = FALSE
  /\ log = << >>
  /\ exitCode = "none"
  /\ wStartMin = 0 /\ wStart = << >> /\ wOffset = 0 /\ wDue = {} /\ wDone = FALSE
  /\ sFile = AbsentFile /\ sBefore = AbsentFile /\ sCall = NoCall /\ sNow = 0
  /\ bLessons = << >> /\ bPeriods = << >> /\ bMinute = 0 /\ bFile = AbsentFile
  /\ bOut = NoBatch /\ bDone = FALSE
  /\ tElapsed = 0 /\ tDispatched = 0 /\ tLast = NoDispatch
  /\ lDir = FALSE /\ lFile = << >> /\ lConsole = << >> /\ lCalls = 0 /\ lThrew = FALSE
  /\ zPc = "time" /\ zNow = 0 /\ zSystem = 0 /\ zConfigured = 0 /\ zReadAt = 0
  /\ zTime = NoTime /\ zToday = "" /\ zDate = 0
  /\ vStart = NoStart /\ vPeriod = << >> /\ vOffset = 0 /\ vMinute = 0
  /\ vValid = FALSE /\ vOut = NoOutcome /\ vDone = FALSE

\* await sendNotifications(lesson, settings) for the next lesson of the
\* loop: Promise.allSettled returns when the slower channel has settled
TimedSend ==
  /\ tDispatched < MaxBatch
  /\ \E p \in ChannelDurations, e \in ChannelDurations :
       /\ tLast' = [pushover |-> p, email |-> e]
       /\ tElapsed' = tElapsed + Max(p, e)
  /\ tDispatched' = tDispatched + 1
  /\ UNCHANGED <<mainVars, windowVars, storeVars, batchVars, loggerVars, zoneVars, validVars>>

NextTime == TimedSend

SpecTime == InitTime /\ [][NextTime]_vars

(***************************************************************************)
(* The logger on its own: log(level, message, data) with a logs directory  *)
(* and a log file that may fail.                                           *)
(***************************************************************************)
Levels == {"INFO", "WARN", "ERROR"}

WriteFailure == "Failed to write to log file"

InitLogger ==
  /\ pc = "idle"
  /\ clock = [day |-> FirstDay, min |-> FirstMinute]
  /\ ticks = 0
  /\ startedAt = [day |-> StaleDay, min |-> FirstMinute]
  /\ timetable = TimetableGood
  /\ notifiedFile = AbsentFile
  /\ lastFile = AbsentFile
  /\ currentTime = [hours |-> 0, minutes |-> 0]
  /\ lessonsInWindow = << >>
  /\ todayDate = StaleDay
  /\ idx = 1
  /\ notified = FALSE
  /\ ch = [c \in Channels |-> IdleChannel]
  /\ result = NoResult
  /\ sent = [kd \in AllKeys \X Dates |-> 0]
  /\ marks = [kd \in AllKeys \X Dates |-> 0]
  /\ runCalls = << >>
  /\ ioFail = 0
  /\ persisted = FALSE
  /\ log = << >>
  /\ exitCode = "none"
  /\ wStartMin = 0 /\ wStart = << >> /\ wOffset = 0 /\ wDue = {} /\ wDone = FALSE
  /\ sFile = AbsentFile /\ sBefore = AbsentFile /\ sCall = NoCall /\ sNow = 0
  /\ bLessons = << >> /\ bPeriods = << >> /\ bMinute = 0 /\ bFile = AbsentFile
  /\ bOut = NoBatch /\ bDone = FALSE
  /\ tElapsed = 0 /\ tDispatched = 0 /\ tLast = NoDispatch
  /\ lDir \in BOOLEAN
  /\ lFile = << >> /\ lConsole = << >> /\ lCalls = 0 /\ lThrew = FALSE
  /\ zPc = "time" /\ zNow = 0 /\ zSystem = 0 /\ zConfigured = 0 /\ zReadAt = 0
  /\ zTime = NoTime /\ zToday = "" /\ zDate = 0
  /\ vStart = NoStart /\ vPeriod = << >> /\ vOffset = 0 /\ vMinute = 0
  /\ vValid = FALSE /\ vOut = NoOutcome /\ vDone = FALSE

\* log: the entry goes to the console, then ensureLogDir and appendFileSync
\* are tried; what they throw is caught and reported on the console
LogCall_NoCatch ==
  /\ lCalls < MaxLogs
  /\ ~lThrew
  /\ \E level \in Levels, mkdirOk \in BOOLEAN, appendOk \in BOOLEAN :
       LET entry == <<level, lCalls + 1>>
           dirOk == lDir \/ mkdirOk
           wrote == dirOk /\ appendOk
       IN /\ lConsole' = Append(lConsole, entry)
          /\ lDir' = dirOk
          /\ lFile' = IF wrote THEN Append(lFile, entry) ELSE lFile
          /\ lThrew' = ~wrote
          /\ lCalls' = IF wrote THEN lCalls + 1 ELSE lCalls
  /\ UNCHANGED <<mainVars, windowVars, storeVars, batchVars, timeVars, zoneVars, validVars>>

LogCall ==
  /\ lCalls < MaxLogs
  /\ ~lThrew
  /\ \E level \in Levels, mkdirOk \in BOOLEAN, appendOk \in BOOLEAN :
       LET entry == <<level, lCalls + 1>>
           dirOk == lDir \/ mkdirOk
           wrote == dirOk /\ appendOk
       IN /\ lConsole' = IF wrote THEN Append(lConsole, entry)
                         ELSE lConsole \o <<entry, WriteFailure>>
          /\ lDir' = dirOk
          /\ lFile' = IF wrote THEN Append(lFile, entry) ELSE lFile
  /\ lThrew' = FALSE
  /\ lCalls' = lCalls + 1
  /\ UNCHANGED <<mainVars, windowVars, storeVars, batchVars, timeVars, zoneVars, validVars>>

NextLogger == LogCall

SpecLogger == InitLogger /\ [][NextLogger]_vars

(***************************************************************************)
(* The orchestrator with the progress its timers give: a fetch ends by the *)
(* timeout at the latest and the retry delay passes, so the attempts, the  *)
(* delay and the join are taken when they can be.  Nothing bounds the read *)
(* of a response body.                                                     *)
(***************************************************************************)
SpecLive ==
  /\ Spec
  /\ \A c \in Channels :
       /\ WF_vars(FirstAttempt(c))
       /\ WF_vars(RetryDelay(c))
       /\ WF_vars(SecondAttempt(c))
  /\ WF_vars(Join)

(***************************************************************************)
(* scripts/test-notification.js: a process of its own that loads the       *)
(* settings and calls sendNotifications once for a test lesson.  It runs   *)
(* the channels of the dispatcher above and has its own report and exit;   *)
(* it finds notified-today.json as a scheduled run left it and does not    *)
(* touch it.                                                               *)
(***************************************************************************)
AllSucceeded(r) == r.pushover = "success" /\ r.email = "success"

InitTest ==
  /\ pc = "testLoad"
  /\ clock = [day |-> FirstDay, min |-> FirstMinute]
  /\ ticks = 0
  /\ startedAt = [day |-> FirstDay, min |-> FirstMinute]
  /\ timetable = TimetableGood
  /\ notifiedFile \in {AbsentFile, CorruptFile, JsonFile(StaleStore)}
  /\ lastFile = AbsentFile
  /\ currentTime = [hours |-> 0, minutes |-> 0]
  /\ lessonsInWindow = << >>
  /\ todayDate = StaleDay
  /\ idx = 1
  /\ notified = FALSE
  /\ ch = [c \in Channels |-> IdleChannel]
  /\ result = NoResult
  /\ sent = [kd \in AllKeys \X Dates |-> 0]
  /\ marks = [kd \in AllKeys \X Dates |-> 0]
  /\ runCalls = << >>
  /\ ioFail = 0
  /\ persisted = FALSE
  /\ log = << >>
  /\ exitCode = "none"
  /\ wStartMin = 0 /\ wStart = << >> /\ wOffset = 0 /\ wDue = {} /\ wDone = FALSE
  /\ sFile = AbsentFile /\ sBefore = AbsentFile /\ sCall = NoCall /\ sNow = 0
  /\ bLessons = << >> /\ bPeriods = << >> /\ bMinute = 0 /\ bFile = AbsentFile
  /\ bOut = NoBatch /\ bDone = FALSE
  /\ tElapsed = 0 /\ tDispatched = 0 /\ tLast = NoDispatch
  /\ lDir = FALSE /\ lFile = << >> /\ lConsole = << >> /\ lCalls = 0 /\ lThrew = FALSE
  /\ zPc = "time" /\ zNow = 0 /\ zSystem = 0 /\ zConfigured = 0 /\ zReadAt = 0
  /\ zTime = NoTime /\ zToday = "" /\ zDate = 0
  /\ vStart = NoStart /\ vPeriod = << >> /\ vOffset = 0 /\ vMinute = 0
  /\ vValid = FALSE /\ vOut = NoOutcome /\ vDone = FALSE

testFrame == <<clock, ticks, startedAt, timetable, notifiedFile, lastFile,
               currentTime, lessonsInWindow, todayDate, idx, notified, sent,
               marks, runCalls, ioFail, persisted, windowVars, storeVars,
               batchVars, timeVars, loggerVars, zoneVars, validVars>>

\* loadSettings in its try: process.exit(1) when it throws
TestLoadSettings ==
  /\ pc = "testLoad"
  /\ \E ok \in BOOLEAN :
       IF ok THEN /\ pc' = "testCall"
                  /\ log' = Append(log, "Settings loaded successfully")
                  /\ UNCHANGED exitCode
       ELSE /\ pc' = "exited"
            /\ log' = Append(log, "Failed to load settings")
            /\ exitCode' = 1
  /\ UNCHANGED <<ch, result>>
  /\ UNCHANGED testFrame

\* sendNotifications(testLesson, settings) up to its await; what the call
\* throws goes to the catch of the script, which exits with 1
TestStartSend ==
  /\ pc = "testCall"
  /\ \E raises \in BOOLEAN, pushoverCreds \in BOOLEAN, emailKey \in BOOLEAN,
        emailSettings \in BOOLEAN :
       IF raises
       THEN /\ pc' = "exited"
            /\ log' = Append(log, "Error sending notifications")
            /\ exitCode' = 1
            /\ UNCHANGED ch
       ELSE /\ ch' = [pushover |-> CalledChannel(pushoverCreds),
                      email |-> CalledChannel(emailKey /\ emailSettings)]
            /\ log' = Append(log, "Sending notifications")
            /\ pc' = "send"
            /\ UNCHANGED exitCode
  /\ UNCHANGED result
  /\ UNCHANGED testFrame

\* the await ends: sendNotifications logs and returns its record, the script
\* prints it and exits
TestReport_Any ==
  /\ pc = "send"
  /\ JoinOutcome.ready
  /\ result' = [pushover |-> StatusOf("pushover"), email |-> StatusOf("email")]
  /\ log' = log \o <<IF StatusOf("pushover") = "success"
                     THEN "Pushover notification sent successfully"
                     ELSE "Pushover notification failed",
                     IF StatusOf("email") = "success"
                     THEN "Email sent successfully" ELSE "Email failed",
                     IF StatusOf("pushover") = "success" \/ StatusOf("email") = "success"
                     THEN "All notifications sent successfully"
                     ELSE "Some notifications failed">>
  /\ exitCode' = IF StatusOf("pushover") = "success" \/ StatusOf("email") = "success"
                 THEN 0 ELSE 1
  /\ pc' = "exited"
  /\ UNCHANGED ch
  /\ UNCHANGED testFrame

TestReport ==
  /\ pc = "send"
  /\ JoinOutcome.ready
  /\ result' = [pushover |-> StatusOf("pushover"), email |-> StatusOf("email")]
  /\ log' = log \o <<IF StatusOf("pushover") = "success"
                     THEN "Pushover notification sent successfully"
                     ELSE "Pushover notification failed",
                     IF StatusOf("email") = "success"
                     THEN "Email sent successfully" ELSE "Email failed",
                     IF AllSucceeded(result')
                     THEN "All notifications sent successfully"
                     ELSE "Some notifications failed">>
  /\ exitCode' = IF AllSucceeded(result') THEN 0 ELSE 1
  /\ pc' = "exited"
  /\ UNCHANGED ch
  /\ UNCHANGED testFrame

NextTest ==
  \/ TestLoadSettings
  \/ TestStartSend
  \/ \E c \in Channels : FirstAttempt(c)
  \/ \E c \in Channels : RetryDelay(c)
  \/ \E c \in Channels : SecondAttempt(c)
  \/ \E c \in Channels : BodyRead(c)
  \/ TestReport

SpecTest == InitTest /\ [][NextTest]_vars

(***************************************************************************)
(* The three reads of the clock in main: getCurrentTime(settings.timezone),*)
(* then new Date().getDay() inside getTodayLessons, then                   *)
(* getTodayDateString(settings.timezone).  Each creates its own Date, so   *)
(* the instant may have moved on between them.  A time zone is taken by    *)
(* its offset from UTC at the instant.                                     *)
(***************************************************************************)
days == <<"sunday", "monday", "tuesday", "wednesday", "thursday", "friday", "saturday">>

\* Los Angeles, UTC, London in summer, Auckland in summer
ZoneOffsets == {0 - 480, 0, 60, 780}

\* the instants drawn: a Sunday, a Wednesday and a Saturday, at the hour,
\* the half hour and the last minute of every hour
ZoneInstants ==
  {MinutesPerDay * d + 60 * h + m : d \in {7, 10, 13}, h \in 0..23, m \in {0, 30, 59}}

\* the calendar day and the minute of the day of an instant in a zone
LocalDay(instant, offset) == (instant + offset) \div MinutesPerDay
LocalMinute(instant, offset) == (instant + offset) % MinutesPerDay

\* Date.prototype.getDay: the weekday in the system time zone, 0 = Sunday
getDay(instant, systemOffset) == LocalDay(instant, systemOffset) % 7

\* getCurrentTime(timezone) at an instant: hour, minute and weekday of the
\* formatter with timeZone: timezone
getCurrentTimeAt(instant, offset) ==
  [hours |-> LocalMinute(instant, offset) \div 60,
   minutes |-> LocalMinute(instant, offset) % 60,
   dayOfWeek |-> days[(LocalDay(instant, offset) % 7) + 1]]

\* getTodayLessons at an instant: the key of timetable.schedule it reads
TodayKey(instant, systemOffset, offset) == days[getDay(instant, systemOffset) + 1]

\* getTodayDateString(timezone) at an instant: the calendar day of the
\* formatter with timeZone: timezone
getTodayDateStringAt(instant, offset) == LocalDay(instant, offset)

InitClock ==
  /\ pc = "idle"
  /\ clock = [day |-> FirstDay, min |-> FirstMinute]
  /\ ticks = 0
  /\ startedAt = [day |-> StaleDay, min |-> FirstMinute]
  /\ timetable = TimetableGood
  /\ notifiedFile = AbsentFile
  /\ lastFile = AbsentFile
  /\ currentTime = [hours |-> 0, minutes |-> 0]
  /\ lessonsInWindow = << >>
  /\ todayDate = StaleDay
  /\ idx = 1
  /\ notified = FALSE
  /\ ch = [c \in Channels |-> IdleChannel]
  /\ result = NoResult
  /\ sent = [kd \in AllKeys \X Dates |-> 0]
  /\ marks = [kd \in AllKeys \X Dates |-> 0]
  /\ runCalls = << >>
  /\ ioFail = 0
  /\ persisted = FALSE
  /\ log = << >>
  /\ exitCode = "none"
  /\ wStartMin = 0 /\ wStart = << >> /\ wOffset = 0 /\ wDue = {} /\ wDone = FALSE
  /\ sFile = AbsentFile /\ sBefore = AbsentFile /\ sCall = NoCall /\ sNow = 0
  /\ bLessons = << >> /\ bPeriods = << >> /\ bMinute = 0 /\ bFile = AbsentFile
  /\ bOut = NoBatch /\ bDone = FALSE
  /\ tElapsed = 0 /\ tDispatched = 0 /\ tLast = NoDispatch
  /\ lDir = FALSE /\ lFile = << >> /\ lConsole = << >> /\ lCalls = 0 /\ lThrew = FALSE
  /\ zPc = "time"
  /\ zNow \in ZoneInstants
  /\ zSystem \in ZoneOffsets
  /\ zConfigured \in ZoneOffsets
  /\ zReadAt = 0
  /\ zTime = NoTime /\ zToday = "" /\ zDate = 0
  /\ vStart = NoStart /\ vPeriod = << >> /\ vOffset = 0 /\ vMinute = 0
  /\ vValid = FALSE /\ vOut = NoOutcome /\ vDone = FALSE

clockFrame == <<mainVars, windowVars, storeVars, batchVars, timeVars, loggerVars,
                validVars>>

\* const currentTime = getCurrentTime(settings.timezone)
ReadCurrentTime ==
  /\ zPc = "time"
  /\ zTime' = getCurrentTimeAt(zNow, zConfigured)
  /\ zReadAt' = zNow
  /\ zPc' = "lessons"
  /\ UNCHANGED <<zNow, zSystem, zConfigured, zToday, zDate>>
  /\ UNCHANGED clockFrame

\* const lessons = getTodayLessons(timetable), up to MaxDrift minutes later
ReadTodayLessons ==
  /\ zPc = "lessons"
  /\ \E later \in 0..MaxDrift :
       /\ later <= MaxDrift - (zNow - zReadAt)
       /\ zNow' = zNow + later
       /\ zToday' = TodayKey(zNow + later, zSystem, zConfigured)
  /\ zPc' = "date"
  /\ UNCHANGED <<zSystem, zConfigured, zReadAt, zTime, zDate>>
  /\ UNCHANGED clockFrame

\* const todayDate = getTodayDateString(settings.timezone), after the
\* window matching
ReadTodayDate ==
  /\ zPc = "date"
  /\ \E later \in 0..MaxDrift :
       /\ later <= MaxDrift - (zNow - zReadAt)
       /\ zNow' = zNow + later
       /\ zDate' = getTodayDateStringAt(zNow + later, zConfigured)
  /\ zPc' = "done"
  /\ UNCHANGED <<zSystem, zConfigured, zReadAt, zTime, zToday>>
  /\ UNCHANGED clockFrame

NextClock ==
  \/ ReadCurrentTime
  \/ ReadTodayLessons
  \/ ReadTodayDate

SpecClock == InitClock /\ [][NextClock]_vars

(***************************************************************************)
(* validateTimetable and shouldNotifyNow on the same timetable: one period *)
(* whose start is any value the JSON file may hold, and one lesson.        *)
(***************************************************************************)
\* texts of a period start: well formed, and malformed in every way the two
\* patterns could tell apart
StartTexts ==
  {<<"0", "9", ":", "0", "0">>, <<"9", ":", "0", "0">>, <<"2", "3", ":", "5", "9">>,
   <<"0", ":", "0", "0">>, <<"2", "4", ":", "0", "0">>, <<"0", "9", ":", "6", "0">>,
   <<"9", ".", "0", "0">>, <<"1", "9", ":", "5">>, <<"9", "9", ":", "9", "9">>, << >>}

\* the JSON values of a period start: a string, or an array of one string
StartValues ==
  [type : {"string"}, text : StartTexts]
    \cup [type : {"array"}, text : {<<"0", "9", ":", "0", "0">>, <<"9", ".", "0", "0">>}]

\* ToString, as RegExp.prototype.test applies it to its argument: a string
\* is itself, an array of one string is that string
StringOf(v) == v.text

\* the timetable as validateTimetable sees it: timeRegex.test(period.start)
\* tests the string of the value
ValidatedTimetable(start, period) ==
  [periods |-> (Period1 :> [start |-> StringOf(start)]),
   lessons |-> <<Lesson(ClassA, period, "Maths")>>,
   shape |-> "ok"]

\* shouldNotifyNow on the value: parseTime calls timeString.match, which
\* only a string has
shouldNotifyNowOf(start, lesson, offsetMinutes, now) ==
  IF lesson.period = Period1 /\ start.type # "string"
  THEN [threw |-> TRUE, warned |-> FALSE, value |-> FALSE]
  ELSE shouldNotifyNow(lesson, (Period1 :> [start |-> start.text]), offsetMinutes, now)

ValidMinutes == {0, FirstMinute, FirstMinute + 1, FirstMinute + NOTIFICATION_WINDOW_MINUTES,
                 FirstMinute + NOTIFICATION_WINDOW_MINUTES + 1, MinutesPerDay - 1}

InitValid ==
  /\ pc = "idle"
  /\ clock = [day |-> FirstDay, min |-> FirstMinute]
  /\ ticks = 0
  /\ startedAt = [day |-> StaleDay, min |-> FirstMinute]
  /\ timetable = TimetableGood
  /\ notifiedFile = AbsentFile
  /\ lastFile = AbsentFile
  /\ currentTime = [hours |-> 0, minutes |-> 0]
  /\ lessonsInWindow = << >>
  /\ todayDate = StaleDay
  /\ idx = 1
  /\ notified = FALSE
  /\ ch = [c \in Channels |-> IdleChannel]
  /\ result = NoResult
  /\ sent = [kd \in AllKeys \X Dates |-> 0]
  /\ marks = [kd \in AllKeys \X Dates |-> 0]
  /\ runCalls = << >>
  /\ ioFail = 0
  /\ persisted = FALSE
  /\ log = << >>
  /\ exitCode = "none"
  /\ wStartMin = 0 /\ wStart = << >> /\ wOffset = 0 /\ wDue = {} /\ wDone = FALSE
  /\ sFile = AbsentFile /\ sBefore = AbsentFile /\ sCall = NoCall /\ sNow = 0
  /\ bLessons = << >> /\ bPeriods = << >> /\ bMinute = 0 /\ bFile = AbsentFile
  /\ bOut = NoBatch /\ bDone = FALSE
  /\ tElapsed = 0 /\ tDispatched = 0 /\ tLast = NoDispatch
  /\ lDir = FALSE /\ lFile = << >> /\ lConsole = << >> /\ lCalls = 0 /\ lThrew = FALSE
  /\ zPc = "time" /\ zNow = 0 /\ zSystem = 0 /\ zConfigured = 0 /\ zReadAt = 0
  /\ zTime = NoTime /\ zToday = "" /\ zDate = 0
  /\ vStart \in StartValues
  /\ vPeriod \in {Period1, PeriodX, << >>}
  /\ vOffset \in Offsets
  /\ vMinute \in ValidMinutes
  /\ vValid = FALSE /\ vOut = NoOutcome /\ vDone = FALSE

EvalValid ==
  /\ ~vDone
  /\ vValid' = validateTimetable(ValidatedTimetable(vStart, vPeriod)).valid
  /\ vOut' = shouldNotifyNowOf(vStart, Lesson(ClassA, vPeriod, "Maths"), vOffset,
                               TimeOfMinute(vMinute))
  /\ vDone' = TRUE
  /\ UNCHANGED <<vStart, vPeriod, vOffset, vMinute>>
  /\ UNCHANGED <<mainVars, windowVars, storeVars, batchVars, timeVars, loggerVars, zoneVars>>

NextValid == EvalValid

SpecValid == InitValid /\ [][NextValid]_vars

(***************************************************************************)
(* Properties of the window matcher, checked under SpecWindow.             *)
(***************************************************************************)
\* start + offset in minutes since midnight, not reduced modulo a day
UnwrappedNotify(startMin, offset) == startMin + offset

\* the notify minute as shouldNotifyNow computes it
ComputedNotify(start, offset) ==
  timeToMinutes(addMinutes(parseTime(start), offset))

IsDue(start, offset, n) ==
  shouldNotifyNow(WindowLesson, PeriodsOf(start), offset, TimeOfMinute(n)).value

Distance(a, b) == IF a >= b THEN a - b ELSE b - a

\* second period starts: near the first one and at both ends of the day
OtherStartMinutes(startMin) ==
  {m \in MinutesOfDay :
     \/ Distance(m, startMin) <= 2 * NOTIFICATION_WINDOW_MINUTES
     \/ m <= MaxEdge
     \/ m >= MinutesPerDay - 1 - MaxEdge}

\* C2: shouldNotifyNow is true iff notify <= now < notify + 5 with
\* notify = 60 * hours + minutes + offset not reduced modulo 1440, so that a
\* period whose start + offset reaches 24:00 is never due early in the day.
C2_NoWraparound ==
  wDone =>
    wDue = {n \in MinutesOfDay :
              /\ UnwrappedNotify(wStartMin, wOffset) <= n
              /\ n < UnwrappedNotify(wStartMin, wOffset) + NOTIFICATION_WINDOW_MINUTES}

CurrentLesson == lessonsInWindow[idx]

\* the store the file holds, as a reader that does not fail sees it
StoreOf(file) == IF file.kind = "json" THEN file.data ELSE EmptyStore

BothFailed == result = [pushover |-> "failed", email |-> "failed"]

InLoop == pc \in {"check", "call", "send", "mark"}

\* C1 as stated: whatever the outcome of the reads and writes of the dedup
\* file, sendNotifications is invoked at most once per (class, period) and
\* date key.
C1_AtMostOnceWhateverIO ==
  \A kd \in AllKeys \X Dates : sent[kd] <= 1

\* C1 amended: sendNotifications is invoked at most once per (class, period)
\* and date key, plus at most once more for each read or write of the dedup
\* file that failed.
C1_AtMostOncePerIOFailure ==
  \A kd \in AllKeys \X Dates : sent[kd] <= 1 + ioFail

\* a second dispatch of the same lesson on the same day, after one failure
C1_Witness ==
  /\ ioFail = 1
  /\ \E kd \in AllKeys \X Dates : sent[kd] = 2

\* C5: when hasBeenNotified returns true for the lesson of the loop, main
\* calls neither sendNotifications nor markNotified for it, logs the skip,
\* leaves the dedup file as it is and goes on with the next lesson.
C5_SkipWhenNotified ==
  [][(pc = "check" /\ idx <= Len(lessonsInWindow) /\ notified')
       => /\ sent' = sent
          /\ marks' = marks
          /\ runCalls' = runCalls
          /\ notifiedFile' = notifiedFile
          /\ log' = Append(log, "Skipping duplicate notification")
          /\ pc' = "check"
          /\ idx' = idx + 1]_vars

\* an invocation a minute or more after a dispatch that was recorded: the
\* lesson is skipped and nothing is dispatched
C5_Witness ==
  /\ pc = "done"
  /\ ticks >= 1
  /\ lessonsInWindow # << >>
  /\ \A i \in DOMAIN runCalls : runCalls[i] = 0
  /\ log[Len(log) - 1] = "Skipping duplicate notification"
  /\ sent[<<DedupKey(lessonsInWindow[1]), todayDate>>] = 1

\* C6: a lesson of lessonsInWindow for which the dedup file holds no record
\* dated today when its turn comes is dispatched, exactly once in the
\* invocation, and when the save succeeds the file then holds the record of
\* its key dated today.
C6_DispatchedOnceAndRecorded ==
  /\ [](InLoop => \A i \in DOMAIN runCalls : runCalls[i] <= 1)
  /\ [][(pc = "check" /\ idx <= Len(lessonsInWindow)
           /\ ~HasEntry(StoreOf(notifiedFile), CurrentLesson, todayDate))
          => (pc' = "call" /\ idx' = idx /\ runCalls[idx] = 0)]_vars
  /\ [][pc = "call"
          => (pc' = "send" /\ idx' = idx /\ runCalls'[idx] = 1
              /\ sent'[<<DedupKey(CurrentLesson), todayDate>>]
                   = sent[<<DedupKey(CurrentLesson), todayDate>>] + 1)]_vars
  /\ [][pc = "send" => (runCalls' = runCalls /\ idx' = idx /\ pc' \in {"send", "mark"})]_vars
  /\ [][pc = "mark"
          => /\ runCalls' = runCalls /\ runCalls[idx] = 1
             /\ idx' = idx + 1
             /\ persisted'
                  => /\ notifiedFile'.kind = "json"
                     /\ DedupKey(CurrentLesson) \in DOMAIN notifiedFile'.data
                     /\ notifiedFile'.data[DedupKey(CurrentLesson)].date = todayDate]_vars

\* the end to end scenario: one lesson dispatched once, and the file holds
\* one record, the one of its key, dated today
C6_Witness ==
  /\ pc = "check"
  /\ idx = 2
  /\ persisted
  /\ runCalls[1] = 1
  /\ notifiedFile.kind = "json"
  /\ DOMAIN notifiedFile.data = {DedupKey(lessonsInWindow[1])}
  /\ notifiedFile.data[DedupKey(lessonsInWindow[1])].date = todayDate

\* C7: when sendNotifications reported both channels failed, main does not
\* call markNotified for the lesson.
C7_NoMarkAfterFailedSend ==
  [][(pc = "mark" /\ BothFailed) => marks' = marks]_vars

C9_NeverThrows ==
  /\ \A i \in DOMAIN log : log[i] # "Failed to send notifications"
  /\ pc = "mark"
       => /\ result \in [pushover : {"success", "failed"}, email : {"success", "failed"}]
          /\ \A c \in Channels : (result[c] = "success") <=> (ch[c].pc = "fulfilled")

\* Pushover failed after its retry, the email was sent
C9_Witness ==
  /\ pc = "mark"
  /\ ch["pushover"] = [pc |-> "rejected", attempts |-> 2, failed |-> 2]
  /\ ch["email"].pc = "fulfilled"
  /\ result = [pushover |-> "failed", email |-> "success"]

\* C10: both channels are started before either settles, each can take its
\* step whatever the other does, the result of one is its own, and
\* sendNotifications returns only when both have settled.
C10_IndependentChannels ==
  /\ (\E c \in Channels : ch[c].pc # "idle") => (\A c \in Channels : ch[c].pc # "idle")
  /\ pc = "send"
       => \A c \in Channels :
            /\ ch[c].pc = "attempt1" => ENABLED FirstAttempt(c)
            /\ ch[c].pc = "delay" => ENABLED RetryDelay(c)
            /\ ch[c].pc = "attempt2" => ENABLED SecondAttempt(c)
            /\ ch[c].pc = "body" => ENABLED BodyRead(c)
            /\ ~Settled(c) => ~ENABLED Join
  /\ pc = "mark"
       => \A c \in Channels :
            /\ Settled(c)
            /\ (result[c] = "success") <=> (ch[c].pc = "fulfilled")

\* one channel has failed for good while the other is still in its first
\* attempt
C10_Witness ==
  /\ pc = "send"
  /\ ch["pushover"] = [pc |-> "rejected", attempts |-> 2, failed |-> 2]
  /\ ch["email"] = [pc |-> "attempt1", attempts |-> 1, failed |-> 0]

\* a channel whose function reached its first fetch
Attempted(c) == ch[c].attempts >= 1

\* C11 as stated: for every channel of every dispatch, 'failed' is reported
\* iff two attempts were made and both failed.
C11_FailedIffBothAttemptsFailed ==
  pc = "mark"
    => \A c \in Channels :
         (result[c] = "failed") <=> (ch[c].attempts = 2 /\ ch[c].failed = 2)

\* C11 amended: a channel that has its credentials and settings makes one
\* attempt; a 2xx response ends it; a failed attempt is followed by the
\* delay and exactly one more attempt; there is never a third; it reports
\* 'failed' iff both attempts failed.  A channel without its credentials or
\* settings makes no attempt and reports 'failed'.
C11_OneRetryPerChannel ==
  /\ [](\A c \in Channels :
          /\ ch[c].attempts <= 2
          /\ ch[c].failed <= ch[c].attempts
          /\ ch[c].pc = "attempt1" => (ch[c].attempts = 1 /\ ch[c].failed = 0)
          /\ ch[c].pc = "delay" => (ch[c].attempts = 1 /\ ch[c].failed = 1)
          /\ ch[c].pc = "attempt2" => (ch[c].attempts = 2 /\ ch[c].failed = 1)
          /\ ch[c].pc = "body" => (ch[c].attempts = 2 /\ ch[c].failed = 2)
          /\ ch[c].pc = "fulfilled" => ch[c].failed = ch[c].attempts - 1
          /\ (ch[c].pc = "rejected" /\ Attempted(c))
               => (ch[c].attempts = 2 /\ ch[c].failed = 2)
          /\ pc = "mark"
               => /\ Attempted(c)
                     => ((result[c] = "failed") <=> (ch[c].attempts = 2 /\ ch[c].failed = 2))
                  /\ ~Attempted(c) => result[c] = "failed")
  /\ [][\A c \in Channels :
          /\ (ch[c].pc = "attempt1" /\ ch'[c] # ch[c])
               => \/ ch'[c] = [pc |-> "fulfilled", attempts |-> 1, failed |-> 0]
                  \/ ch'[c] = [pc |-> "delay", attempts |-> 1, failed |-> 1]
          /\ (ch[c].pc = "delay" /\ ch'[c] # ch[c])
               => ch'[c] = [pc |-> "attempt2", attempts |-> 2, failed |-> 1]
          /\ (ch[c].pc = "attempt2" /\ ch'[c] # ch[c])
               => (ch'[c].attempts = 2 /\ ch'[c].pc \in {"fulfilled", "body", "rejected"})
          /\ (Settled(c) /\ pc = "send") => ch'[c] = ch[c]]_vars

\* one channel succeeded at its second attempt, the other failed twice
C11_Witness ==
  /\ pc = "mark"
  /\ ch["pushover"] = [pc |-> "fulfilled", attempts |-> 2, failed |-> 1]
  /\ ch["email"] = [pc |-> "rejected", attempts |-> 2, failed |-> 2]
  /\ result = [pushover |-> "success", email |-> "failed"]

(***************************************************************************)
(* Properties of the dedup store, checked under SpecStore.                 *)
(***************************************************************************)
\* the key of the lesson of the last call
CallKey == sCall.lesson.class \o <<"|">> \o sCall.lesson.period

\* C12: markNotified(lesson, d) called twice in a row, read and persisted,
\* leaves one record under the key of the lesson, dated d, and the keys the
\* file held after the first call.
C12_MarkTwiceSameStore ==
  [][(/\ sCall.fn = "markNotified" /\ sCall.saved
      /\ sCall'.fn = "markNotified" /\ sCall'.loaded /\ sCall'.saved
      /\ sCall'.lesson = sCall.lesson
      /\ sCall'.date = sCall.date)
       => /\ sFile.kind = "json" /\ sFile'.kind = "json"
          /\ DOMAIN sFile'.data = DOMAIN sFile.data
          /\ CallKey \in DOMAIN sFile'.data
          /\ sFile'.data[CallKey].date = sCall.date
          /\ \A k \in DOMAIN sFile'.data :
               k # CallKey => sFile'.data[k] = sFile.data[k]]_vars

\* the second of two calls for the same lesson and date, beside the record
\* of another lesson of that date
C12_Witness ==
  /\ sNow = 2
  /\ sCall.fn = "markNotified" /\ sCall.loaded /\ sCall.saved
  /\ sBefore.kind = "json"
  /\ CallKey \in DOMAIN sBefore.data
  /\ sBefore.data[CallKey] = [date |-> sCall.date, notifiedAt |-> 1]
  /\ sFile.data[CallKey] = [date |-> sCall.date, notifiedAt |-> 2]
  /\ DOMAIN sFile.data = DOMAIN sBefore.data
  /\ Cardinality(DOMAIN sFile.data) = 2

\* C13: after a markNotified(lesson, d) that persisted, every record of the
\* file is dated d, whatever the file held before, and the records are the
\* ones of date d that were there plus the one of the lesson: none is added
\* that was not marked on d.
C13_PurgeOnWrite ==
  (sCall.fn = "markNotified" /\ sCall.saved)
    => /\ sFile.kind = "json"
       /\ \A k \in DOMAIN sFile.data : sFile.data[k].date = sCall.date
       /\ DOMAIN sFile.data =
            {CallKey} \cup
            (IF sCall.loaded /\ sBefore.kind = "json"
             THEN {k \in DOMAIN sBefore.data : sBefore.data[k].date = sCall.date}
             ELSE {})
       /\ Cardinality(DOMAIN sFile.data) <= Cardinality(StoreKeys)

\* a lesson marked on one day, another lesson marked on the next: the
\* record of the first day is gone
C13_Witness ==
  /\ sCall.fn = "markNotified" /\ sCall.loaded /\ sCall.saved
  /\ sCall.date = FirstDay + 1
  /\ sBefore.kind = "json"
  /\ \E k \in DOMAIN sBefore.data :
       /\ k # CallKey
       /\ sBefore.data[k] = [date |-> FirstDay, notifiedAt |-> 1]
  /\ DOMAIN sFile.data = {CallKey}

\* C14: hasBeenNotified(lesson, d), the file being read, is truthy iff the
\* file holds a record under "class|period" whose date is d; a record of
\* another date does not count.  The call leaves the file as it is.
C14_HasIffRecordOfDate ==
  (sCall.fn = "hasBeenNotified" /\ sCall.loaded)
    => /\ sCall.returned
            <=> /\ sBefore.kind = "json"
                /\ \E k \in DOMAIN sBefore.data :
                     k = CallKey /\ sBefore.data[k].date = sCall.date
       /\ sFile = sBefore

\* a record of the day before, not yet purged: not notified today
C14_Witness ==
  /\ sCall.fn = "hasBeenNotified" /\ sCall.loaded
  /\ sCall.date = FirstDay
  /\ sBefore.kind = "json"
  /\ CallKey \in DOMAIN sBefore.data
  /\ sBefore.data[CallKey].date = StaleDay
  /\ ~sCall.returned

(***************************************************************************)
(* Failures of the dedup file in the orchestrator, checked under Spec.     *)
(***************************************************************************)
\* C15: when the dedup file cannot be read or parsed at the head of the
\* loop, hasBeenNotified returns not notified, the warning is logged, nothing
\* is thrown, and the next step of the run is the dispatch of the lesson.
C15_LoadFailureFailOpen ==
  /\ [][(pc = "check" /\ idx <= Len(lessonsInWindow)
          /\ (notifiedFile.kind = "corrupt" \/ ioFail' > ioFail))
         => /\ ~notified'
            /\ log' = log \o <<"Failed to load dedup file", "Match found">>
            /\ pc' = "call" /\ idx' = idx
            /\ exitCode' = exitCode]_vars
  /\ [][pc = "call"
         => /\ pc' = "send"
            /\ sent'[<<DedupKey(CurrentLesson), todayDate>>]
                 = sent[<<DedupKey(CurrentLesson), todayDate>>] + 1]_vars

\* the file is unparsable and the lesson is being dispatched
C15_Witness ==
  /\ pc = "send"
  /\ notifiedFile = CorruptFile
  /\ Len(log) >= 3
  /\ log[Len(log) - 2] = "Failed to load dedup file"
  /\ log[Len(log)] = "Sending notifications"

\* C16: when the write of the dedup file fails in markNotified, the error
\* is logged, markNotified returns, main goes on with the next lesson, and
\* the loop is left only by 'Complete' with exit code 0.
C16_PersistFailureDoesNotRaise ==
  /\ [][(pc = "mark" /\ ~persisted')
         => /\ \E i \in (Len(log) + 1)..(Len(log') - 1) :
                 log'[i] = "Failed to save dedup file"
            /\ log'[Len(log')] = "Marked lesson as notified"
            /\ pc' = "check" /\ idx' = idx + 1
            /\ exitCode' = exitCode]_vars
  /\ [][InLoop
         => /\ pc' \in {"check", "call", "send", "mark", "done"}
            /\ pc' = "done"
                 => (exitCode' = 0 /\ log'[Len(log')] = "Complete")]_vars

\* a run that failed to save the record of one lesson, dispatched the next
\* one and completed
C16_Witness ==
  /\ pc = "done"
  /\ exitCode = 0
  /\ log[Len(log)] = "Complete"
  /\ \E i \in DOMAIN log :
       /\ log[i] = "Failed to save dedup file"
       /\ \E j \in DOMAIN log : j > i /\ log[j] = "Sending notifications"

(***************************************************************************)
(* Properties of the batch matcher, checked under SpecBatch (C18 under     *)
(* Spec).                                                                  *)
(***************************************************************************)
\* shouldNotifyNow for a lesson of the batch
BatchDue(lesson) ==
  shouldNotifyNow(lesson, bPeriods, NotificationOffset, TimeOfMinute(bMinute))

\* last-notified.json holds a record dated today for a lesson of the batch
BatchRecorded ==
  /\ bFile.kind = "json"
  /\ \E i \in 1..Len(bLessons) :
       /\ DedupKey(bLessons[i]) \in DOMAIN bFile.data
       /\ bFile.data[DedupKey(bLessons[i])].date = FirstDay

\* the positions of a list at which the lessons of another are found, in
\* order: sub is a subsequence of seq
RECURSIVE IsSubsequence(_, _)
IsSubsequence(sub, seq) ==
  IF sub = << >> THEN TRUE
  ELSE IF seq = << >> THEN FALSE
  ELSE IF sub[1] = seq[1] THEN IsSubsequence(Tail(sub), Tail(seq))
  ELSE IsSubsequence(sub, Tail(seq))

\* C17: a lesson whose period is not in the periods map makes shouldNotifyNow
\* return false and log the warning without throwing, and where the period
\* starts parse getLessonsToNotify goes on to the other lessons: all are
\* evaluated, the unknown one is left out and the others are returned as
\* their windows say.
C17_UnknownPeriodIsSoft ==
  /\ \A l \in BatchLessons :
       l.period \notin DOMAIN bPeriods
         => BatchDue(l) = [threw |-> FALSE, warned |-> TRUE, value |-> FALSE]
  /\ (bDone /\ \A l \in RangeOf(bLessons) : ~BatchDue(l).threw)
       => /\ ~bOut.threw
          /\ bOut.evaluated = Len(bLessons)
          /\ bOut.warned <=> \E l \in RangeOf(bLessons) : l.period \notin DOMAIN bPeriods
          /\ \A l \in RangeOf(bOut.lessons) : l.period \in DOMAIN bPeriods
          /\ ~BatchRecorded
               => \A l \in RangeOf(bLessons) :
                    BatchDue(l).value => l \in RangeOf(bOut.lessons)

\* the lesson of the unknown period comes first, and the lesson after it is
\* returned
C17_Witness ==
  /\ bDone
  /\ Len(bLessons) = 2
  /\ bLessons[1].period \notin DOMAIN bPeriods
  /\ bOut.warned /\ ~bOut.threw
  /\ bOut.evaluated = 2
  /\ bOut.lessons = <<bLessons[2]>>

\* C18: a period start that parseTime rejects is caught where it is used:
\* the matcher does not throw out of main, and the run does not end with
\* exit code 1 (the state "aborted" of the run).
C18_MalformedTimeCaught ==
  [][pc = "match" => pc' # "aborted"]_vars

\* C19: what getLessonsToNotify returns depends on the lessons, the periods,
\* the offset and the current time only: whatever last-notified.json holds,
\* every lesson inside its window is in the output.
C19_MatchIndependentOfDedup ==
  (bDone /\ ~bOut.threw)
    => \A l \in RangeOf(bLessons) : BatchDue(l).value => l \in RangeOf(bOut.lessons)

C21_DistinctPairsIndependent ==
  [][(/\ sCall.fn = "markNotified"
      /\ sCall'.fn = "hasBeenNotified"
      /\ <<sCall'.lesson.class, sCall'.lesson.period>>
           # <<sCall.lesson.class, sCall.lesson.period>>
      /\ ~hasBeenNotified(sBefore, TRUE, sCall'.lesson, sCall'.date))
       => ~sCall'.returned]_vars

(***************************************************************************)
(* The course of one invocation, checked under Spec.                       *)
(***************************************************************************)
LoadErrors == {"Failed to load settings", "Failed to load timetable"}

\* C22: when loadSettings or loadTimetable throws, the error is logged and
\* the process exits with code 1 at once: sendNotifications is not called and
\* the dedup file is neither read nor written.
C22_LoadFailureIsFatal ==
  /\ [][(pc \in {"loadSettings", "loadTimetable"} /\ log' # log)
         => /\ pc' = "aborted"
            /\ exitCode' = 1
            /\ log' = <<"Checking for notifications",
                        IF pc = "loadSettings" THEN "Failed to load settings"
                        ELSE "Failed to load timetable">>
            /\ sent' = sent /\ marks' = marks
            /\ notifiedFile' = notifiedFile /\ ioFail' = ioFail]_vars
  /\ [][(pc = "aborted" /\ log[Len(log)] \in LoadErrors)
         => /\ pc' = "idle"
            /\ sent' = sent /\ marks' = marks
            /\ notifiedFile' = notifiedFile /\ ioFail' = ioFail]_vars

\* the timetable file is missing: two log lines and exit code 1
C22_Witness ==
  /\ pc = "aborted"
  /\ exitCode = 1
  /\ log = <<"Checking for notifications", "Failed to load timetable">>

\* C23: a run that logged the warnings of validateTimetable is never
\* aborted: it goes on to Done.
C23_SoftValidationNeverAborts ==
  pc = "aborted"
    => \A i \in DOMAIN log : log[i] # "Timetable validation warnings"

\* C24: the aborted exit is entered from the two loading steps only: once
\* settings and timetable have loaded the invocation ends in Done.
C24_AbortOnlyFromLoading ==
  [][pc' = "aborted" => pc \in {"loadSettings", "loadTimetable", "aborted"}]_vars

\* today's entry of the schedule holds no lesson, or is not an array
NoEntryToday ==
  /\ timetable.shape # "noSchedule"
  /\ (timetable.shape = "dayNotArray" \/ timetable.lessons = << >>)

\* the periods of all lessons of today are known or unknown, their starts
\* parse, and none is inside its window
NoneInWindow ==
  /\ timetable.shape = "ok"
  /\ \A i \in 1..Len(timetable.lessons) :
       LET due == shouldNotifyNow(timetable.lessons[i], timetable.periods,
                                  NotificationOffset, currentTime)
       IN ~due.threw /\ ~due.value

\* C25: when today has no entry in the schedule, or an entry that is not an
\* array, or no lesson is inside its window, the invocation goes to Done
\* with exit code 0; sendNotifications is not called and the dedup file is
\* not written.
C25_NoOpRun ==
  /\ [][(pc = "match" /\ pc' # "match" /\ (NoEntryToday \/ NoneInWindow))
         => /\ pc' = "done"
            /\ exitCode' = 0
            /\ log'[Len(log')] = "Complete"
            /\ log'[Len(log') - 1] = IF NoEntryToday THEN "No lessons today"
                                     ELSE "No notifications at this time"]_vars
  /\ [][(pc = "match" /\ pc' = "done")
         => /\ sent' = sent /\ marks' = marks /\ runCalls' = runCalls
            /\ notifiedFile' = notifiedFile]_vars
  /\ [][pc = "done"
         => /\ pc' = "idle"
            /\ sent' = sent /\ marks' = marks /\ notifiedFile' = notifiedFile]_vars

\* before the first window opens: nothing is sent, and the record of an
\* earlier day is still in the file
C25_Witness ==
  /\ pc = "done"
  /\ exitCode = 0
  /\ timetable = TimetableGood
  /\ notifiedFile = JsonFile(StaleStore)
  /\ log[Len(log) - 1] = "No notifications at this time"
  /\ \A kd \in AllKeys \X Dates : sent[kd] = 0 /\ marks[kd] = 0

\* C26: the lessons of one invocation are processed one after the other:
\* while main checks, calls or marks, no channel is in flight; the loop
\* moves to the next lesson only from the skip or from the return of
\* markNotified; and a later entry whose key the file already holds for
\* today, the file being read, is skipped.
C26_LessonsInSequence ==
  /\ [](pc \in {"check", "call", "mark"}
          => \A c \in Channels : ch[c].pc \in {"idle", "fulfilled", "rejected"})
  /\ [][(InLoop /\ idx' # idx)
         => /\ idx' = idx + 1
            /\ \/ pc = "mark" /\ marks' # marks
               \/ pc = "check" /\ notified']_vars
  /\ [][(pc = "send" /\ pc' # "send")
         => (pc' = "mark" /\ \A c \in Channels : Settled(c))]_vars
  /\ [][(pc = "check" /\ idx <= Len(lessonsInWindow)
          /\ HasEntry(StoreOf(notifiedFile), CurrentLesson, todayDate)
          /\ ioFail' = ioFail)
         => (notified' /\ pc' = "check" /\ idx' = idx + 1 /\ runCalls' = runCalls)]_vars

\* the same lesson listed twice: dispatched once, skipped once
C26_Witness ==
  /\ pc = "done"
  /\ Len(lessonsInWindow) = 2
  /\ DedupKey(lessonsInWindow[1]) = DedupKey(lessonsInWindow[2])
  /\ runCalls = <<1, 0>>
  /\ sent[<<DedupKey(lessonsInWindow[1]), todayDate>>] = 1

(***************************************************************************)
(* Time and progress.                                                      *)
(***************************************************************************)
\* C27: with an invocation every 60 s, a timeout of 30 s per attempt, a
\* delay of 5 s and at most two attempts per channel, an invocation has
\* finished before the next one starts.  Checked under SpecTime.
C27_FinishesWithinThePeriod ==
  tElapsed < CronPeriodMs

\* C28: sendNotifications always returns: a run that awaits the channels
\* comes to the call of markNotified.  Checked under SpecLive.
C28_SendAlwaysReturns ==
  (pc = "send") ~> (pc = "mark")

\* C29: addMinutes returns the time whose minutes since midnight are
\* (60 * hours + minutes + minutesToAdd) mod 1440, with hours in 0..23 and
\* minutes in 0..59, for every time of the day and the offsets drawn, and for
\* additions of an hour, a day and more.  Checked under SpecWindow.
C29_AddMinutesModuloDay ==
  wDone =>
    \A add \in {wOffset, 60 + wOffset, MinutesPerDay - 1, MinutesPerDay + wOffset,
                2 * MinutesPerDay + 61} :
      LET sum == addMinutes(parseTime(wStart), add)
      IN /\ sum.hours \in 0..23
         /\ sum.minutes \in 0..59
         /\ 60 * sum.hours + sum.minutes = (wStartMin + add) % MinutesPerDay

\* 09:55 + 10 = 10:05
C29_Witness ==
  /\ wDone
  /\ wStart = <<"0", "9", ":", "5", "5">>
  /\ wOffset = 10
  /\ addMinutes(parseTime(wStart), wOffset) = [hours |-> 10, minutes |-> 5]
  /\ wDue = {605, 606, 607, 608, 609}

\* C30: a failure to create the logs directory or to append to the log file
\* does not leave the logger: every call returns, its entry is on the
\* console, and the file holds the entry or the console the report of the
\* failure.  Checked under SpecLogger.
C30_LoggerNeverThrows ==
  /\ [](~lThrew)
  /\ [][lConsole' # lConsole
         => /\ lCalls' = lCalls + 1
            /\ Len(lConsole') > Len(lConsole)
            /\ SubSeq(lConsole', 1, Len(lConsole)) = lConsole
            /\ lConsole'[Len(lConsole) + 1][2] = lCalls'
            /\ \/ /\ lFile' = Append(lFile, lConsole'[Len(lConsole) + 1])
                  /\ Len(lConsole') = Len(lConsole) + 1
               \/ /\ lFile' = lFile
                  /\ lConsole' = lConsole \o <<lConsole'[Len(lConsole) + 1], WriteFailure>>]_vars
  /\ [](Len(lConsole) >= lCalls)

\* the directory cannot be created: the entry and the report of the
\* failure are on the console, the file is empty, and a second call went
\* through as well
C30_Witness ==
  /\ ~lDir
  /\ lCalls = 2
  /\ lFile = << >>
  /\ Len(lConsole) = 4
  /\ lConsole[2] = WriteFailure
  /\ lConsole[4] = WriteFailure
  /\ ~lThrew

(***************************************************************************)
(* The test-notification script, checked under SpecTest.                   *)
(***************************************************************************)
\* C31: the test-notification script exits with 0 exactly when
\* sendNotifications reported 'success' for both channels, and with 1 when a
\* channel failed, when the settings could not be loaded and when the call
\* raised.
C31_TestExitCode ==
  pc = "exited" =>
    /\ exitCode \in {0, 1}
    /\ (exitCode = 0) <=> (result # NoResult /\ AllSucceeded(result))
    /\ result # NoResult => \A c \in Channels : result[c] = StatusOf(c)
    /\ (\E c \in Channels : ch[c].pc = "rejected") => exitCode = 1
    /\ log[Len(log)] \in {"Failed to load settings", "Error sending notifications"}
         => exitCode = 1 /\ result = NoResult

\* both channels succeeded, Pushover at its second attempt: exit 0
C31_Witness ==
  /\ pc = "exited"
  /\ exitCode = 0
  /\ ch.pushover = [pc |-> "fulfilled", attempts |-> 2, failed |-> 1]
  /\ ch.email.pc = "fulfilled"
  /\ result = [pushover |-> "success", email |-> "success"]

(***************************************************************************)
(* The scheduled run again, checked under Spec.                            *)
(***************************************************************************)
\* C32: as long as every read and write of the dedup file has succeeded,
\* sendNotifications has been invoked at most once per (class, period) and
\* date key, over all the invocations so far, also for a (class, period)
\* listed twice in the day and whatever the channels returned.
C32_AtMostOnceBenign ==
  ioFail = 0 => \A kd \in AllKeys \X Dates : sent[kd] <= 1

\* a run whose list holds the same (class, period) twice is past the second
\* entry, with one dispatch and one mark for it and no failure
C32_Witness ==
  /\ ioFail = 0
  /\ pc = "check"
  /\ \E i \in 1..Len(lessonsInWindow), j \in 1..Len(lessonsInWindow) :
       /\ i < j
       /\ j < idx
       /\ DedupKey(lessonsInWindow[i]) = DedupKey(lessonsInWindow[j])
       /\ sent[<<DedupKey(lessonsInWindow[i]), todayDate>>] = 1
       /\ marks[<<DedupKey(lessonsInWindow[i]), todayDate>>] = 1

(***************************************************************************)
(* The reads of the clock, checked under SpecClock.                        *)
(***************************************************************************)
\* C33: the weekday whose schedule getTodayLessons selects is the weekday
\* getCurrentTime reported for settings.timezone, for every instant and
\* every pair of system time zone and configured time zone.
C33_WeekdayOfConfiguredZone ==
  zPc \in {"date", "done"} => zToday = zTime.dayOfWeek

\* C34: the date key getTodayDateString returns is the calendar day, in
\* settings.timezone, of the instant at which getCurrentTime read the time
\* used for the window matching, also when the clock has advanced between
\* the two reads.
C34_DateKeyOfMatchedDay ==
  zPc = "done" => zDate = LocalDay(zReadAt, zConfigured)

(***************************************************************************)
(* The dedup store again, checked under SpecStore.                         *)
(***************************************************************************)
\* the records the file held before the call, as markNotified could see them
RecordsBefore == IF sBefore.kind = "json" THEN sBefore.data ELSE EmptyStore

RecordsAfter == IF sFile.kind = "json" THEN sFile.data ELSE EmptyStore

\* what C35 says of a call of markNotified(lesson, d): the records of date
\* d under other keys are as before, no record is added but the one of the
\* lesson, and the records removed are of another date
MarkFrame ==
  /\ \A k \in DOMAIN RecordsBefore :
       (k # CallKey /\ RecordsBefore[k].date = sCall.date)
         => /\ k \in DOMAIN RecordsAfter
            /\ RecordsAfter[k] = RecordsBefore[k]
  /\ DOMAIN RecordsAfter \subseteq DOMAIN RecordsBefore \cup {CallKey}
  /\ \A k \in DOMAIN RecordsBefore \ DOMAIN RecordsAfter :
       RecordsBefore[k].date # sCall.date

\* C35 as stated: every call of markNotified(lesson, d) keeps the frame.
C35_MarkFrameAlways ==
  sCall.fn = "markNotified" => MarkFrame

\* C35 amended: a call of markNotified(lesson, d) that read and parsed the
\* file (or found none) and whose write succeeded keeps the frame.
C35_MarkFrameWhenPersisted ==
  (sCall.fn = "markNotified" /\ sCall.loaded /\ sCall.saved) => MarkFrame

\* a file with a record of date d under another key and a record of another
\* date: after the mark the first is as it was, the second is gone and the
\* record of the lesson is there
C35_Witness ==
  /\ sCall.fn = "markNotified" /\ sCall.loaded /\ sCall.saved
  /\ \E k \in DOMAIN RecordsBefore, o \in DOMAIN RecordsBefore :
       /\ k # CallKey /\ o # CallKey /\ k # o
       /\ RecordsBefore[k].date = sCall.date
       /\ RecordsBefore[o].date # sCall.date
       /\ k \in DOMAIN RecordsAfter
       /\ RecordsAfter[k] = RecordsBefore[k]
       /\ o \notin DOMAIN RecordsAfter
  /\ CallKey \in DOMAIN RecordsAfter
  /\ RecordsAfter[CallKey] = [date |-> sCall.date, notifiedAt |-> sNow]

\* C36: when markNotified(lesson, d) cannot read or parse the file and its
\* write succeeds, the file afterwards is a valid store with exactly one
\* record, the one of the lesson dated d, and a call of hasBeenNotified for
\* that lesson and date that follows and reads the file returns true.
C36_RecoveryFromCorruptFile ==
  /\ []((sCall.fn = "markNotified" /\ ~sCall.loaded /\ sCall.saved)
          => /\ sFile.kind = "json"
             /\ DOMAIN sFile.data = {CallKey}
             /\ sFile.data[CallKey] = [date |-> sCall.date, notifiedAt |-> sNow])
  /\ [][(/\ sCall.fn = "markNotified" /\ ~sCall.loaded /\ sCall.saved
         /\ sCall'.fn = "hasBeenNotified"
         /\ sCall'.lesson = sCall.lesson
         /\ sCall'.date = sCall.date
         /\ sCall'.loaded)
          => sCall'.returned = TRUE]_vars

\* an unparsable file, replaced by a store with the one record of the mark
C36_Witness ==
  /\ sCall.fn = "markNotified" /\ ~sCall.loaded /\ sCall.saved
  /\ sBefore = CorruptFile
  /\ sFile.kind = "json"
  /\ DOMAIN sFile.data = {CallKey}
  /\ sFile.data[CallKey].date = sCall.date
  /\ sCall.log = <<"Failed to load dedup file", "Marked lesson as notified">>

(***************************************************************************)
(* Missing credentials, checked under Spec.                                *)
(***************************************************************************)
\* the promise of a channel whose function threw before its first fetch
MissingCredentials(c) == ch[c] = CalledChannel(FALSE)

C38_ValidImpliesMatchable ==
  (vDone /\ vValid) => (~vOut.threw /\ ~vOut.warned)

\* the same for the timetables whose period start is a string: the times
\* timeRegex accepts are times parseTime accepts
ValidStringsMatchable ==
  (vDone /\ vValid /\ vStart.type = "string") => (~vOut.threw /\ ~vOut.warned)

\* a valid timetable whose lesson is due now (the statement is not vacuous)
ValidAndDue ==
  vDone /\ vValid /\ vStart.type = "string" /\ vOut.value

====
